---- MODULE Spec2Model ----
(***************************************************************************)
(* Posteriogram-to-note decoder, chunk coordinator and MIDI event          *)
(* formatter of the piano transcription backend.                           *)
(*                                                                         *)
(* Units.  Times are integers in milliseconds (time_resolution = 0.032 s   *)
(* is 32).  Activations (probabilities) are integers in 1/10000            *)
(* (onset_threshold = 0.3 is 3000).  Frame and peak indices are 0-based as *)
(* in the source; a curve is a sequence, so frame t is element t + 1.      *)
(***************************************************************************)
EXTENDS Integers, Sequences, FiniteSets, TLC

(***************************************************************************)
(* Bounds of the model.                                                    *)
(***************************************************************************)
NumFrames == 10        \* time frames of one posteriogram window

\* raw onset cells that are active: as many as one channel of NumFrames
\* frames can hold as separate peaks (frames 1, 4, 7, ...)
MaxSpikes == (NumFrames - 1) \div 3

\* raw frame cells that are inactive: one between consecutive peaks
MaxDips == MaxSpikes - 1

(***************************************************************************)
(* MusicTranscriptionPostprocessor configuration (extract_notes_from_...). *)
(***************************************************************************)
onset_threshold == 3000
frame_threshold == 3000
min_note_duration == 50
max_note_duration == 8000
merge_gap_threshold == 50
time_resolution == 32
peak_prominence == 1000

\* The pitch channels the model lets be active: the lowest and the highest
\* key of the 88.  Every other channel of a posteriogram is all zero.
Channels == {0, 87}

(***************************************************************************)
(* Generic helpers.                                                        *)
(***************************************************************************)
At(curve, t) == curve[t + 1]

Max2(a, b) == IF a >= b THEN a ELSE b

Min2(a, b) == IF a <= b THEN a ELSE b

Abs(a) == IF a < 0 THEN -a ELSE a

SetMin(S) == CHOOSE m \in S : \A y \in S : m <= y

RECURSIVE SumSeq(_)
SumSeq(s) == IF s = <<>> THEN 0 ELSE Head(s) + SumSeq(Tail(s))

RECURSIVE SelectSeqBy(_, _)
\* list comprehension [s[i] for i in 1..Len(s) if i \in keep]
SelectSeqBy(s, keep) ==
    IF s = <<>> THEN <<>>
    ELSE LET n == Len(s)
             front == SelectSeqBy(SubSeq(s, 1, n - 1), keep)
         IN  IF n \in keep THEN Append(front, s[n]) ELSE front

RECURSIVE LexLess(_, _)
\* Python's ordering of two tuples of integers of the same length
LexLess(a, b) ==
    IF a = <<>> THEN FALSE
    ELSE IF Head(a) # Head(b) THEN Head(a) < Head(b)
    ELSE LexLess(Tail(a), Tail(b))

\* the sequence s rearranged so that s[j] lands at place rank[j]
Permute(s, rank) == [r \in 1..Len(s) |-> s[CHOOSE j \in 1..Len(s) : rank[j] = r]]

\* the place of each element in the stable ascending order of the keys: one more
\* than the number of elements that order puts before it
StableRank(keys) ==
    [j \in DOMAIN keys |->
        Cardinality({i \in DOMAIN keys :
                        LexLess(keys[i], keys[j]) \/ (keys[i] = keys[j] /\ i < j)}) + 1]

\* list.sort(key=...) / sorted(..., key=...): stable, ascending; keys[i] is the
\* key of s[i], a tuple of integers.  (\o <<>> has the keys, the ranks and the result computed
\* once, as lists.)
StableSort(s, keys) ==
    Permute(s, StableRank(keys \o <<>>) \o <<>>) \o <<>>

\* key=lambda x: x['time'] (the tuples of zip(...) are keyed on their time too)
TimeKeys(s) == [i \in 1..Len(s) |-> <<s[i].time>>]

\* key=lambda x: (x['pitch_idx'], x['onset_frame'])
PitchOnsetKeys(s) == [i \in 1..Len(s) |-> <<s[i].pitch_idx, s[i].onset_frame>>]

\* sorted(s, key=lambda x: x['time'])
SortedOnTime(s) == StableSort(s, TimeKeys(s))

(***************************************************************************)
(* smooth_predictions: scipy.ndimage.gaussian_filter1d along the time      *)
(* axis, mode 'reflect', truncate 4.0.  The kernels are the normalised     *)
(* Gaussian weights for sigma = 1.0 (radius 4) and sigma = 0.5 (radius 2), *)
(* in 1/10000.                                                             *)
(***************************************************************************)
KernelOnset == <<3989, 2420, 540, 44, 1>>

KernelFrame == <<7866, 1065, 3>>

RECURSIVE Reflect(_, _)
\* index of the 'reflect' extension  d c b a | a b c d | d c b a
Reflect(i, n) ==
    IF i < 0 THEN Reflect(-i - 1, n)
    ELSE IF i >= n THEN Reflect(2 * n - 1 - i, n)
    ELSE i

SmoothCurve(curve, kernel) ==
    LET n == Len(curve)
        r == Len(kernel) - 1
        term(t, k) == kernel[Abs(k) + 1] * At(curve, Reflect(t + k, n))
    IN  [i \in 1..n |->
            SumSeq([j \in 1..(2 * r + 1) |-> term(i - 1, j - 1 - r)]) \div 10000]

smooth_predictions(predictions, kernel) ==
    [p \in DOMAIN predictions |-> SmoothCurve(predictions[p], kernel)]

(***************************************************************************)
(* scipy.signal.find_peaks(x, height, distance, prominence) as             *)
(* detect_onsets_with_peaks calls it.                                      *)
(***************************************************************************)
RECURSIVE PlateauEnd(_, _, _)
\* while i_ahead < i_max and x[i_ahead] == x[i]: i_ahead += 1
PlateauEnd(x, i, ahead) ==
    IF ahead < Len(x) - 1 /\ At(x, ahead) = At(x, i)
    THEN PlateauEnd(x, i, ahead + 1)
    ELSE ahead

RECURSIVE LocalMaximaFrom(_, _)
\* _local_maxima_1d: midpoints of the strict local maxima (plateaus included),
\* never the first or the last sample
LocalMaximaFrom(x, i) ==
    IF i >= Len(x) - 1 THEN <<>>
    ELSE IF At(x, i - 1) < At(x, i)
         THEN LET ahead == PlateauEnd(x, i, i + 1)
              IN  IF At(x, ahead) < At(x, i)
                  THEN <<(i + ahead - 1) \div 2>> \o LocalMaximaFrom(x, ahead + 1)
                  ELSE LocalMaximaFrom(x, i + 1)
         ELSE LocalMaximaFrom(x, i + 1)

LocalMaxima(x) == IF Len(x) < 3 THEN <<>> ELSE LocalMaximaFrom(x, 1)

RECURSIVE DistanceKeep(_, _, _, _, _)
\* _select_by_peak_distance: peaks are visited from the highest to the lowest
\* (argsort of the heights read backwards); a visited peak that is still kept
\* removes every other peak nearer than the distance
DistanceKeep(peaks, x, dist, todo, keep) ==
    IF todo = {} THEN keep
    ELSE LET j == CHOOSE c \in todo : \A k \in todo :
                      \/ At(x, peaks[k]) < At(x, peaks[c])
                      \/ At(x, peaks[k]) = At(x, peaks[c]) /\ k <= c
             kept == IF j \in keep
                     THEN {k \in keep : k = j \/ Abs(peaks[k] - peaks[j]) >= dist}
                     ELSE keep
         IN  DistanceKeep(peaks, x, dist, todo \ {j}, kept)

\* a slip: the peaks are not thinned by distance
KeepEveryPeak(peaks, x, dist) == peaks

SelectByPeakDistance(peaks, x, dist) ==
    SelectSeqBy(peaks, DistanceKeep(peaks, x, dist, DOMAIN peaks, DOMAIN peaks))

\* _peak_prominences (no wlen): the peak's height above the higher of the two
\* lowest points reached on each side before a strictly higher sample
PeakProminence(x, peak) ==
    LET n == Len(x)
        higherLeft == {i \in 0..(peak - 1) : At(x, i) > At(x, peak)}
        higherRight == {i \in (peak + 1)..(n - 1) : At(x, i) > At(x, peak)}
        lo == IF higherLeft = {} THEN 0
              ELSE (CHOOSE i \in higherLeft : \A k \in higherLeft : k <= i) + 1
        hi == IF higherRight = {} THEN n - 1 ELSE SetMin(higherRight) - 1
        left_min == SetMin({At(x, i) : i \in lo..peak})
        right_min == SetMin({At(x, i) : i \in peak..hi})
    IN  At(x, peak) - Max2(left_min, right_min)

\* a slip: the height condition left out
find_peaks_any_height(x, height, dist, prominence) ==
    LET apart == SelectByPeakDistance(LocalMaxima(x), x, dist)
    IN  SelectSeq(apart, LAMBDA p : PeakProminence(x, p) >= prominence)

find_peaks(x, height, dist, prominence) ==
    LET maxima == LocalMaxima(x)
        high == SelectSeq(maxima, LAMBDA p : At(x, p) >= height)
        apart == SelectByPeakDistance(high, x, dist)
    IN  SelectSeq(apart, LAMBDA p : PeakProminence(x, p) >= prominence)

(***************************************************************************)
(* detect_onsets_with_peaks: the three parallel lists onset_times,         *)
(* onset_pitches, onset_confidences as one list of records, channel by     *)
(* channel in ascending pitch, each channel's peaks in ascending frame.    *)
(***************************************************************************)
RECURSIVE OnsetsOfChannels(_, _)
OnsetsOfChannels(onset_predictions, chans) ==
    IF chans = {} THEN <<>>
    ELSE LET pitch_idx == SetMin(chans)
             onset_curve == onset_predictions[pitch_idx]
             peaks == find_peaks(onset_curve, onset_threshold,
                                 50 \div time_resolution, peak_prominence)
         IN  [i \in 1..Len(peaks) |->
                 [time |-> peaks[i], pitch |-> pitch_idx,
                  confidence |-> At(onset_curve, peaks[i])]]
             \o OnsetsOfChannels(onset_predictions, chans \ {pitch_idx})

detect_onsets_with_peaks(onset_predictions) ==
    OnsetsOfChannels(onset_predictions, DOMAIN onset_predictions)

(***************************************************************************)
(* find_note_endings_from_frames: one ending per onset, in onset order.    *)
(***************************************************************************)
\* np.all(remaining_frames[i:i + confirmation_frames] < frame_threshold), the
\* slice cut at the end of the curve
AllBelow(remaining_frames, i, confirmation_frames) ==
    \A k \in i..(i + confirmation_frames - 1) :
        k < Len(remaining_frames) => At(remaining_frames, k) < frame_threshold

NoteEnding(frame_predictions, onset_time, pitch_idx) ==
    LET curve == frame_predictions[pitch_idx]
        remaining_frames == SubSeq(curve, onset_time + 1, Len(curve))
        len == Len(remaining_frames)
        below_threshold_indices ==
            {i \in 0..(len - 1) : At(remaining_frames, i) < frame_threshold}
        confirmation_frames == Max2(1, 20 \div time_resolution)
    IN  IF below_threshold_indices # {}
        THEN LET candidate_end == SetMin(below_threshold_indices)
             IN  IF candidate_end + confirmation_frames < len
                 THEN IF AllBelow(remaining_frames, candidate_end, confirmation_frames)
                      THEN onset_time + candidate_end
                      ELSE LET later ==
                                   {i \in (candidate_end + 1)..(len - confirmation_frames - 1) :
                                        AllBelow(remaining_frames, i, confirmation_frames)}
                           IN  IF later # {}
                               THEN onset_time + SetMin(later)
                               ELSE Min2(onset_time + (500 \div time_resolution),
                                         onset_time + len - 1)
                 ELSE onset_time + candidate_end
        ELSE Min2(onset_time + (1000 \div time_resolution), Len(curve) - 1)

find_note_endings_from_frames(frame_predictions, onset_list) ==
    [i \in 1..Len(onset_list) |->
        [time |-> NoteEnding(frame_predictions, onset_list[i].time, onset_list[i].pitch),
         pitch |-> onset_list[i].pitch]]

(***************************************************************************)
(* create_notes_from_onsets_and_endings                                    *)
(***************************************************************************)
\* the first ending, in ascending end time, of the onset's pitch that lies
\* after the onset; -1 stands for None
MatchingEnding(endings_data, onset_time, pitch_idx) ==
    LET hits == {k \in 1..Len(endings_data) :
                     /\ endings_data[k].pitch = pitch_idx
                     /\ endings_data[k].time > onset_time}
    IN  IF hits = {} THEN -1 ELSE endings_data[SetMin(hits)].time

RECURSIVE NotesOfOnsets(_, _)
NotesOfOnsets(onset_data, endings_data) ==
    IF onset_data = <<>> THEN <<>>
    ELSE LET o == Head(onset_data)
             matching_ending == MatchingEnding(endings_data, o.time, o.pitch)
             duration_seconds == (matching_ending - o.time) * time_resolution
             rest == NotesOfOnsets(Tail(onset_data), endings_data)
         IN  IF /\ matching_ending # -1
                /\ min_note_duration <= duration_seconds
                /\ duration_seconds <= max_note_duration
             THEN <<[onset_frame |-> o.time,
                     offset_frame |-> matching_ending,
                     pitch_idx |-> o.pitch,
                     duration_seconds |-> duration_seconds,
                     onset_confidence |-> o.confidence]>> \o rest
             ELSE rest

create_notes_from_onsets_and_endings(onset_list, endings) ==
    NotesOfOnsets(SortedOnTime(onset_list),
                  SortedOnTime(endings))

(***************************************************************************)
(* add_velocity_to_notes                                                   *)
(***************************************************************************)
Clip(v, lo, hi) == IF v < lo THEN lo ELSE IF v > hi THEN hi ELSE v

\* a slip: the audible floor left out
VelocityMidiNoFloor(raw_velocity) == (Clip(raw_velocity, 0, 10000) * 127) \div 10000

VelocityMidi(raw_velocity) ==
    LET velocity_scaled == Clip(raw_velocity, 0, 10000)
        velocity_midi == (velocity_scaled * 127) \div 10000
    IN  IF velocity_midi < 20 THEN 60 ELSE velocity_midi

WithVelocity(note, raw_velocity) ==
    [onset_frame |-> note.onset_frame,
     offset_frame |-> note.offset_frame,
     pitch_idx |-> note.pitch_idx,
     duration_seconds |-> note.duration_seconds,
     onset_confidence |-> note.onset_confidence,
     velocity_raw |-> raw_velocity,
     velocity_scaled |-> Clip(raw_velocity, 0, 10000),
     velocity_midi |-> VelocityMidi(raw_velocity)]

add_velocity_to_notes(note_list, velocity_predictions) ==
    [i \in 1..Len(note_list) |->
        WithVelocity(note_list[i],
                     At(velocity_predictions[note_list[i].pitch_idx],
                        note_list[i].onset_frame))]

(***************************************************************************)
(* apply_musical_constraints                                               *)
(***************************************************************************)
PassesConstraints(note) ==
    /\ ~(note.duration_seconds > max_note_duration)
    /\ ~(note.pitch_idx + 21 < 21 \/ note.pitch_idx + 21 > 108)

apply_musical_constraints(note_list) == SelectSeq(note_list, PassesConstraints)

(***************************************************************************)
(* clean_and_merge_notes                                                   *)
(***************************************************************************)
\* current_note after it has taken in next_note
MergedNote(current_note, next_note) ==
    LET ext == [current_note EXCEPT
                   !.offset_frame = next_note.offset_frame,
                   !.duration_seconds =
                       (next_note.offset_frame - current_note.onset_frame)
                           * time_resolution]
    IN  IF "velocity_midi" \in DOMAIN next_note
        THEN [f \in DOMAIN ext \cup {"velocity_midi"} |->
                 IF f = "velocity_midi"
                 THEN Max2(IF "velocity_midi" \in DOMAIN current_note
                           THEN current_note.velocity_midi ELSE 60,
                           next_note.velocity_midi)
                 ELSE ext[f]]
        ELSE ext

ShouldMerge(current_note, next_note) ==
    (next_note.onset_frame - current_note.offset_frame) * time_resolution
        <= merge_gap_threshold

\* a slip: the inner loop as an if, taking in one neighbour at most
AbsorbOnce(pitch_notes, current_note, j) ==
    IF j <= Len(pitch_notes) /\ ShouldMerge(current_note, pitch_notes[j])
    THEN [note |-> MergedNote(current_note, pitch_notes[j]), j |-> j + 1]
    ELSE [note |-> current_note, j |-> j]

RECURSIVE Absorb(_, _, _)
\* the inner while loop: [note, j] when it breaks or runs out of notes
Absorb(pitch_notes, current_note, j) ==
    IF j <= Len(pitch_notes) /\ ShouldMerge(current_note, pitch_notes[j])
    THEN Absorb(pitch_notes, MergedNote(current_note, pitch_notes[j]), j + 1)
    ELSE [note |-> current_note, j |-> j]

RECURSIVE MergePitchNotes(_, _)
\* the outer while loop over one pitch's notes, from index i
MergePitchNotes(pitch_notes, i) ==
    IF i > Len(pitch_notes) THEN <<>>
    ELSE LET r == Absorb(pitch_notes, pitch_notes[i], i + 1)
         IN  <<r.note>> \o MergePitchNotes(pitch_notes, r.j)

RECURSIVE MergeByPitch(_, _)
\* for pitch_idx in range(88), over the pitches that have notes
MergeByPitch(sorted_notes, pitches) ==
    IF pitches = {} THEN <<>>
    ELSE LET pitch_idx == SetMin(pitches)
             pitch_notes == SelectSeq(sorted_notes, LAMBDA n : n.pitch_idx = pitch_idx)
         IN  MergePitchNotes(pitch_notes, 1)
                 \o MergeByPitch(sorted_notes, pitches \ {pitch_idx})

clean_and_merge_notes(note_list) ==
    IF note_list = <<>> THEN note_list
    ELSE LET sorted_notes ==
                 StableSort(note_list, PitchOnsetKeys(note_list))
             cleaned_notes ==
                 MergeByPitch(sorted_notes,
                              {note_list[i].pitch_idx : i \in DOMAIN note_list}
                                  \cap 0..87)
         IN  SelectSeq(cleaned_notes,
                       LAMBDA n : n.duration_seconds >= min_note_duration)

RECURSIVE ChangedPitchNotes(_, _)
\* one pitch's notes after the loops: current_note is the list's own dict, so a
\* note that took others in is changed in the list; the notes taken in are not
ChangedPitchNotes(pitch_notes, i) ==
    IF i > Len(pitch_notes) THEN <<>>
    ELSE LET r == Absorb(pitch_notes, pitch_notes[i], i + 1)
         IN  <<r.note>> \o SubSeq(pitch_notes, i + 1, r.j - 1)
                 \o ChangedPitchNotes(pitch_notes, r.j)

RECURSIVE ChangedByPitch(_, _)
ChangedByPitch(sorted_notes, pitches) ==
    IF pitches = {} THEN <<>>
    ELSE LET pitch_idx == SetMin(pitches)
             pitch_notes == SelectSeq(sorted_notes, LAMBDA n : n.pitch_idx = pitch_idx)
         IN  ChangedPitchNotes(pitch_notes, 1)
                 \o ChangedByPitch(sorted_notes, pitches \ {pitch_idx})

\* the list passed to clean_and_merge_notes, after the call: notes.sort(...) and
\* the merges act on it in place
merged_in_place(note_list) ==
    IF note_list = <<>> THEN note_list
    ELSE ChangedByPitch(StableSort(note_list, PitchOnsetKeys(note_list)),
                        {note_list[i].pitch_idx : i \in DOMAIN note_list})

\* another list of the same dicts (a pitch has one note per onset frame), after
\* these were changed
SameDicts(note_list, changed) ==
    [i \in 1..Len(note_list) |->
        LET same == {k \in 1..Len(changed) :
                        /\ changed[k].pitch_idx = note_list[i].pitch_idx
                        /\ changed[k].onset_frame = note_list[i].onset_frame}
        IN  IF same = {} THEN note_list[i] ELSE changed[CHOOSE k \in same : TRUE]]

(***************************************************************************)
(* convert_to_music_format (frequency, a float derived from pitch alone,   *)
(* is left out)                                                            *)
(***************************************************************************)
NoteNames == <<"C", "C#", "D", "D#", "E", "F", "F#", "G", "G#", "A", "A#", "B">>

pitch_to_note_name(pitch) == <<NoteNames[(pitch % 12) + 1], (pitch \div 12) - 1>>

\* a slip: the MIDI pitch taken one semitone too high
MusicNoteShifted(note) ==
    [note_name |-> "", time |-> note.onset_frame * time_resolution,
     duration |-> note.duration_seconds, velocity |-> 6000, velocity_midi |-> 80,
     pitch |-> note.pitch_idx + 22]

MusicNote(note) ==
    [note_name |-> pitch_to_note_name(note.pitch_idx + 21),
     time |-> note.onset_frame * time_resolution,
     duration |-> note.duration_seconds,
     velocity |-> IF "velocity_raw" \in DOMAIN note THEN note.velocity_raw ELSE 6000,
     velocity_midi |-> IF "velocity_midi" \in DOMAIN note THEN note.velocity_midi ELSE 80,
     pitch |-> note.pitch_idx + 21]

\* a slip: the final sort left out
convert_without_sort(processed_notes) ==
    [i \in 1..Len(processed_notes) |->
        [time |-> processed_notes[i].onset_frame * time_resolution,
         duration |-> processed_notes[i].duration_seconds,
         pitch |-> processed_notes[i].pitch_idx + 21]]

convert_to_music_format(processed_notes) ==
    SortedOnTime([i \in 1..Len(processed_notes) |-> MusicNote(processed_notes[i])] \o <<>>)

(***************************************************************************)
(* Chunk coordinator: calculate_chunk_duration_and_overlap,                *)
(* split_audio_into_chunks, process_single_chunk, remove_duplicate_notes.  *)
(***************************************************************************)
expected_width == 626

hop_length == 512

sample_rate == 16000

overlap_duration == 2000

chunk_duration == (expected_width * hop_length * 1000) \div sample_rate

LookBack == 10

DuplicateWindow == 500

\* chunk paths: 0 is audio_path itself, k > 0 the k-th temporary chunk file
AudioPath == 0

RECURSIVE ChunkBoundariesNoOverlap(_, _, _)
\* a slip: the next chunk started where the last one ended
ChunkBoundariesNoOverlap(total, start_time, index) ==
    IF ~(start_time < total) THEN <<>>
    ELSE LET end_time == Min2(start_time + chunk_duration, total)
             chunk == [path |-> index + 1, start |-> start_time, end |-> end_time]
         IN  IF end_time < total
             THEN <<chunk>> \o ChunkBoundariesNoOverlap(total, end_time, index + 1)
             ELSE <<chunk>>

RECURSIVE ChunkBoundaries(_, _, _)
\* the while loop of split_audio_into_chunks from start_time, chunk index
ChunkBoundaries(total, start_time, index) ==
    IF ~(start_time < total) THEN <<>>
    ELSE LET end_time == Min2(start_time + chunk_duration, total)
             chunk == [path |-> index + 1, start |-> start_time, end |-> end_time]
         IN  IF end_time < total
             THEN <<chunk>> \o ChunkBoundaries(total, end_time - overlap_duration,
                                               index + 1)
             ELSE <<chunk>>

split_audio_into_chunks(total) ==
    IF total <= chunk_duration
    THEN <<[path |-> AudioPath, start |-> 0, end |-> total]>>
    ELSE ChunkBoundaries(total, 0, 0)

\* the except branch of split_audio_into_chunks
SplitFallback == <<[path |-> AudioPath, start |-> 0, end |-> 0]>>

\* process_single_chunk, the decode having succeeded with `decoded`
AdjustedNotes(decoded, start_offset) ==
    [i \in 1..Len(decoded) |-> [decoded[i] EXCEPT !.time = @ + start_offset]]

IsDuplicate(note, existing_note) ==
    /\ Abs(note.pitch - existing_note.pitch) = 0
    /\ Abs(note.time - existing_note.time) < DuplicateWindow

RECURSIVE UniqueNotesPrepended(_, _)
\* a slip: an accepted note is put in front of unique_notes
UniqueNotesPrepended(sorted_notes, n) ==
    IF n = 0 THEN <<>>
    ELSE LET unique_notes == UniqueNotesPrepended(sorted_notes, n - 1)
             note == sorted_notes[n]
         IN  IF \E k \in 1..Len(unique_notes) :
                    /\ k > Len(unique_notes) - LookBack
                    /\ IsDuplicate(note, unique_notes[k])
             THEN unique_notes
             ELSE <<note>> \o unique_notes

RECURSIVE UniqueNotes(_, _)
\* the for loop of remove_duplicate_notes over the first n sorted notes
UniqueNotes(sorted_notes, n) ==
    IF n = 0 THEN <<>>
    ELSE LET unique_notes == UniqueNotes(sorted_notes, n - 1)
             note == sorted_notes[n]
         IN  IF \E k \in 1..Len(unique_notes) :
                    /\ k > Len(unique_notes) - LookBack
                    /\ IsDuplicate(note, unique_notes[k])
             THEN unique_notes
             ELSE Append(unique_notes, note)

remove_duplicate_notes(notes_in) ==
    IF notes_in = <<>> THEN <<>>
    ELSE LET sorted_notes == SortedOnTime(notes_in)
         IN  UniqueNotes(sorted_notes, Len(sorted_notes))

(***************************************************************************)
(* create_midi_from_notes.  Times are in ms, so a time of t seconds times  *)
(* ticks_per_second is t_ms * ticks_per_second / 1000; int() of a value    *)
(* that is not negative is the floor.                                      *)
(***************************************************************************)
ticks_per_beat == 480

tempo == 500000

ticks_per_second == (ticks_per_beat * 1000000) \div tempo

\* a slip: ticks per beat taken for ticks per second
onset_ticks_per_beat(note) == (Max2(0, note.time) * ticks_per_beat) \div 1000

\* int(max(0, note['time'] * ticks_per_second))
onset_time_ticks(note) == (Max2(0, note.time) * ticks_per_second) \div 1000

\* onset_time_ticks + int(max(1, note['duration'] * ticks_per_second))
offset_time_ticks(note) ==
    onset_time_ticks(note) + Max2(1, (note.duration * ticks_per_second) \div 1000)

\* a slip: the duration test left out
SkippedOnTimeOnly(note) == note.time < 0

\* if note['time'] < 0 or note['duration'] <= 0: continue
SkippedNote(note) == note.time < 0 \/ note.duration <= 0

\* a slip: the sanity ceiling left out
EventVelocityKept(note) == Max2(0, Min2(127, note.velocity_midi))

\* velocity_raw > 5 becomes 100; then max(0, min(127, velocity_raw))
EventVelocity(note) ==
    LET velocity_raw == IF note.velocity_midi > 5 THEN 100 ELSE note.velocity_midi
    IN  Max2(0, Min2(127, velocity_raw))

RECURSIVE EventsOfNotes(_)
\* the for loop: two events per note that is not skipped
EventsOfNotes(note_list) ==
    IF note_list = <<>> THEN <<>>
    ELSE LET note == Head(note_list)
         IN  (IF SkippedNote(note) THEN <<>>
              ELSE <<[tick |-> onset_time_ticks(note), type |-> "note_on",
                      pitch |-> note.pitch, velocity |-> EventVelocity(note)],
                     [tick |-> offset_time_ticks(note), type |-> "note_off",
                      pitch |-> note.pitch, velocity |-> 0]>>)
             \o EventsOfNotes(Tail(note_list))

\* a slip: the on-events of a tick come first
TypeOrderOnFirst(type) == IF type = "note_on" THEN 0 ELSE 1

\* Python's order of the strings 'note_off' < 'note_on'
TypeOrder(type) == IF type = "note_off" THEN 0 ELSE 1

\* a slip: the sort of the events left out
UnsortedEvents(event_list) == event_list

\* events.sort() on the tuples (tick, type, pitch, velocity)
SortedEvents(event_list) ==
    StableSort(event_list,
               [i \in 1..Len(event_list) |->
                   <<event_list[i].tick, TypeOrder(event_list[i].type),
                     event_list[i].pitch, event_list[i].velocity>>])

\* the messages appended after the tempo message: time = max(0, abs_time - last_time)
TrackMessages(event_list) ==
    [i \in 1..Len(event_list) |->
        [type |-> event_list[i].type, note |-> event_list[i].pitch,
         velocity |-> event_list[i].velocity,
         time |-> Max2(0, event_list[i].tick
                              - (IF i = 1 THEN 0 ELSE event_list[i - 1].tick))]]

\* the events list when the function returns
midi_events(note_list) ==
    SortedEvents(EventsOfNotes(SortedOnTime(note_list)))

\* the track when the function returns
midi_track(note_list) ==
    <<[type |-> "set_tempo", note |-> 0, velocity |-> 0, time |-> 0]>>
        \o TrackMessages(midi_events(note_list))

(***************************************************************************)
(* apply_music_language_constraints (note_tracking.py).  A piano roll is a *)
(* list of rows, one per pitch, each a list of activations per frame; the  *)
(* value 1 the code writes is 10000.                                       *)
(***************************************************************************)
gap_threshold == 3

roll_min_note_duration == 3

\* piano_roll[pitch, t]
Cell(roll, pitch, t) == roll[pitch + 1][t + 1]

\* piano_roll.shape[1]
RollWidth(roll) == Len(roll[1])

RECURSIVE NoteSegments(_, _, _, _)
\* the scan of one row for its (start_t, end_t, duration) segments, from frame t
NoteSegments(row, t, note_on, start_t) ==
    IF t >= Len(row) THEN <<>>
    ELSE IF At(row, t) > 0 /\ ~note_on
         THEN NoteSegments(row, t + 1, TRUE, t)
    ELSE IF (At(row, t) = 0 \/ t = Len(row) - 1) /\ note_on
         THEN LET end_t == IF t < Len(row) - 1 THEN t ELSE t + 1
              IN  <<[start_t |-> start_t, end_t |-> end_t,
                     duration |-> end_t - start_t]>>
                      \o NoteSegments(row, t + 1, FALSE, start_t)
    ELSE NoteSegments(row, t + 1, note_on, start_t)

RECURSIVE MergedSegments(_, _, _)
\* second pass: the loop over note_segments[1:], then the final append
MergedSegments(note_segments, i, current_segment) ==
    IF i > Len(note_segments) THEN <<current_segment>>
    ELSE IF note_segments[i].start_t - current_segment.end_t <= gap_threshold
         THEN MergedSegments(note_segments, i + 1,
                             [start_t |-> current_segment.start_t,
                              end_t |-> note_segments[i].end_t,
                              duration |-> note_segments[i].end_t
                                               - current_segment.start_t])
    ELSE <<current_segment>> \o MergedSegments(note_segments, i + 1, note_segments[i])

\* t is in start_t:end_t of one of the segments
InSegment(segments, t) ==
    \E k \in DOMAIN segments : segments[k].start_t <= t /\ t < segments[k].end_t

\* step 1 on one row: short notes are cleared, then merged segments are set
CorrectedRow(row) ==
    LET note_segments == NoteSegments(row, 0, FALSE, 0)
        short == SelectSeq(note_segments,
                           LAMBDA s : s.duration < roll_min_note_duration)
        merged_segments ==
            IF Len(note_segments) >= 2
            THEN MergedSegments(note_segments, 2, note_segments[1])
            ELSE <<>>
    IN  [i \in 1..Len(row) |->
            IF InSegment(merged_segments, i - 1) THEN 10000
            ELSE IF InSegment(short, i - 1) THEN 0
            ELSE row[i]]

\* step 1: every row
RemoveShortAndMerge(roll) == [p \in 1..Len(roll) |-> CorrectedRow(roll[p])]

\* np.where(corrected[:, t] > 0)[0]
ActiveNotes(roll, t) == {pitch \in 0..(Len(roll) - 1) : Cell(roll, pitch, t) > 0}

\* a slip: the cap never applies
NoKeepSets(roll, active_notes, t, cap) == {active_notes}

\* np.argsort(confidences)[-max_polyphony:]: the pitches an ascending sort of
\* the confidences can leave in its last max_polyphony places (the order of
\* equal confidences is not specified)
KeepSets(roll, active_notes, t, cap) ==
    {keep \in SUBSET active_notes :
        /\ Cardinality(keep) = cap
        /\ \A k \in keep, r \in active_notes \ keep :
               Cell(roll, k, t) >= Cell(roll, r, t)}

\* corrected[notes_to_remove, t] = 0
Silenced(roll, notes_to_remove, t) ==
    [p \in 1..Len(roll) |-> [i \in 1..Len(roll[p]) |->
        IF i = t + 1 /\ (p - 1) \in notes_to_remove THEN 0 ELSE roll[p][i]]]

(***************************************************************************)
(* process_predictions as a state machine: one step per numbered step of   *)
(* the function.  Each posteriogram is drawn where the function first      *)
(* reads it.                                                               *)
(***************************************************************************)
VARIABLES
    stage,              \* position in process_predictions
    n_outputs,
    onset_preds,        \* the smoothed onset posteriogram
    offset_preds,       \* the offset posteriogram of a model with four outputs
    frame_preds,        \* the smoothed frame posteriogram
    onsets,             \* zip(onset_times, onset_pitches, onset_confidences)
    note_endings,
    notes,              \* the raw notes, then with velocity
    constrained_notes,
    cleaned_notes,
    music_notes         \* the returned Note Events

decodeVars == <<stage, n_outputs, onset_preds, offset_preds, frame_preds,
                onsets, note_endings, notes,
                constrained_notes, cleaned_notes, music_notes>>

VARIABLES
    entry,              \* the function the caller invoked
    pc,                 \* position in it
    total_duration,     \* len(y) / sr of the audio, in ms
    audio_known,        \* audio_path has been decoded once
    audio_notes,        \* the notes the decode of audio_path yields
    chunks,             \* what split_audio_into_chunks returned
    chunk_index,        \* the chunk the for loop is at (1-based)
    chunk_results,      \* per processed chunk: [ok, notes] of process_single_chunk
    all_notes,
    notes_out,          \* the notes the coordinator / the decode returned
    return_site,        \* the return statement the coordinator left through
    response            \* what the caller gets

chunkVars == <<entry, pc, total_duration, audio_known, audio_notes, chunks,
               chunk_index, chunk_results, all_notes, notes_out, return_site,
               response>>

VARIABLES
    midi_pc,            \* position in create_midi_from_notes
    midi_notes,         \* its notes argument
    events,             \* its events list
    track               \* the messages of its track

midiVars == <<midi_pc, midi_notes, events, track>>

VARIABLES
    roll_pc,            \* position in apply_music_language_constraints
    piano_roll,         \* its piano_roll argument
    max_polyphony,      \* its max_polyphony argument
    corrected,          \* its corrected copy
    roll_t              \* the frame the polyphony loop is at

rollVars == <<roll_pc, piano_roll, max_polyphony, corrected, roll_t>>

VARIABLES
    peak_pc,            \* position in the loop body of detect_onsets_with_peaks
    peak_resolution,    \* self.time_resolution, in ms
    peak_curve,         \* onset_curve, one channel of the onset posteriogram
    channel_onsets      \* what the loop body appends for this channel

peakVars == <<peak_pc, peak_resolution, peak_curve, channel_onsets>>

VARIABLES
    model,              \* ModelLoader.model: 0 for None, else the object a load made
    loads,              \* loads that have assigned ModelLoader.model
    lock,               \* StableModelLoader.lock: 0 when free, else its holder
    last_reset_time,    \* StableModelLoader.last_reset_time, in seconds
    clock,                \* what time.time() returns, in seconds
    requests,           \* requests the server has taken
    thread_pc,          \* where each request thread stands
    thread_call,        \* the method each request thread calls
    thread_result       \* what that call returned or raised

loaderVars == <<model, loads, lock, last_reset_time, clock, requests,
                thread_pc, thread_call, thread_result>>

vars == <<decodeVars, chunkVars, midiVars, rollVars, peakVars, loaderVars>>

\* the variables each machine leaves alone
NotDecode == <<chunkVars, midiVars, rollVars, peakVars, loaderVars>>

NotChunk == <<decodeVars, midiVars, rollVars, peakVars, loaderVars>>

NotMidi == <<decodeVars, chunkVars, rollVars, peakVars, loaderVars>>

NotRoll == <<decodeVars, chunkVars, midiVars, peakVars, loaderVars>>

NotPeak == <<decodeVars, chunkVars, midiVars, rollVars, loaderVars>>

NotLoader == <<decodeVars, chunkVars, midiVars, rollVars, peakVars>>

RECURSIVE SubsetsUpTo(_, _)
\* the subsets of S with at most k elements
SubsetsUpTo(S, k) ==
    IF k = 0 THEN {{}}
    ELSE LET smaller == SubsetsUpTo(S, k - 1)
         IN  smaller \cup {s \cup {x} : s \in smaller, x \in S}

Cells == Channels \X (0..(NumFrames - 1))

\* raw onset activations of a struck key: 1.0, or a weak 0.5 that smoothing
\* leaves below onset_threshold unless two such cells are adjacent
SpikeLevels == {10000, 5000}

\* how many cells a raw onset posteriogram has at the spike level
SpikesAt(level) == IF level = 10000 THEN MaxSpikes ELSE MaxDips

\* raw onset posteriograms: at most MaxSpikes cells at 1.0, or at most
\* MaxDips cells at 0.5, the others at 0
OnsetMatrices ==
    UNION {{[p \in Channels |-> [i \in 1..NumFrames |->
                IF <<p, i - 1>> \in S THEN level ELSE 0]] :
                    S \in SubsetsUpTo(Cells, SpikesAt(level))} : level \in SpikeLevels}

\* raw frame posteriograms: at most MaxDips cells at 0, the others at 1.0
FrameMatrices ==
    {[p \in Channels |-> [i \in 1..NumFrames |->
          IF <<p, i - 1>> \in S THEN 0 ELSE 10000]] : S \in SubsetsUpTo(Cells, MaxDips)}

\* what steps 1 hands to steps 2 and 3: the smoothed posteriograms
SmoothedOnsetMatrices == {smooth_predictions(m, KernelOnset) : m \in OnsetMatrices}

SmoothedFrameMatrices == {smooth_predictions(m, KernelFrame) : m \in FrameMatrices}

\* the offset posteriogram of a model with this many outputs: with four, at
\* most one cell of it is fired; with three there is none
OffsetInputs(outputs) ==
    IF outputs = 3 THEN {<<>>}
    ELSE {[p \in Channels |-> [i \in 1..NumFrames |->
              IF <<p, i - 1>> \in S THEN 10000 ELSE 0]] : S \in SubsetsUpTo(Cells, 1)}

\* the smoothed onset posteriograms of a model with this many outputs; a model
\* with four outputs is run on posteriograms of at most one struck cell
OnsetInputs(outputs) ==
    IF outputs = 3 THEN SmoothedOnsetMatrices
    ELSE {smooth_predictions([p \in Channels |-> [i \in 1..NumFrames |->
                                 IF <<p, i - 1>> \in S THEN 10000 ELSE 0]], KernelOnset) :
              S \in SubsetsUpTo(Cells, 1)}

\* velocity activations: 0.05 (below the audible floor) and 0.9
VelocityLevels == {500, 9000}

\* ... and the edges: below 0, either side of 20/127, above 1.0
EdgeVelocityLevels == {0 - 100, 1574, 1575, 12000}

\* velocity posteriograms: any level at the cells add_velocity_to_notes reads,
\* or an edge level at the first note's cell and 0.9 at the others
VelocityMatrices(note_list) ==
    LET read == {<<note_list[i].pitch_idx, note_list[i].onset_frame>> : i \in DOMAIN note_list}
        plain == [read -> VelocityLevels]
        loud == [c \in read |-> 9000]
        \* the cell of the first note
        first == IF note_list = <<>> THEN {}
                 ELSE {<<note_list[1].pitch_idx, note_list[1].onset_frame>>}
        edged == {[loud EXCEPT ![c[1]] = c[2]] : c \in first \X EdgeVelocityLevels}
    IN  {[p \in Channels |-> [i \in 1..NumFrames |->
              IF <<p, i - 1>> \in read THEN v[<<p, i - 1>>] ELSE 0]] :
                  v \in plain \cup edged}

DecodeInit ==
    /\ stage = "start"
    /\ n_outputs \in {2, 3, 4}
    /\ onset_preds = <<>>
    /\ offset_preds = <<>>
    /\ frame_preds = <<>>
    /\ onsets = <<>>
    /\ note_endings = <<>>
    /\ notes = <<>>
    /\ constrained_notes = <<>>
    /\ cleaned_notes = <<>>
    /\ music_notes = <<>>

\* raise ValueError("Expected 3 or 4 model outputs")
RejectOutputs ==
    /\ stage = "start"
    /\ n_outputs \notin {3, 4}
    /\ stage' = "raised"
    /\ UNCHANGED <<n_outputs, offset_preds, frame_preds, onset_preds, onsets, note_endings, notes, constrained_notes,
                   cleaned_notes, music_notes>>
    /\ UNCHANGED NotDecode

\* the outputs are unpacked; steps 1 and 2: smooth the onset posteriogram,
\* detect the onsets
DetectOnsets ==
    /\ stage = "start"
    /\ n_outputs \in {3, 4}
    /\ onset_preds' \in OnsetInputs(n_outputs)
    /\ offset_preds' \in OffsetInputs(n_outputs)
    /\ onsets' = detect_onsets_with_peaks(onset_preds')
    /\ stage' = "onsets"
    /\ UNCHANGED <<n_outputs, frame_preds, note_endings, notes, constrained_notes,
                   cleaned_notes, music_notes>>
    /\ UNCHANGED NotDecode

\* steps 1 and 3: smooth the frame posteriogram, find the note endings
FindEndings ==
    /\ stage = "onsets"
    /\ frame_preds' \in SmoothedFrameMatrices
    /\ note_endings' = find_note_endings_from_frames(frame_preds', onsets)
    /\ stage' = "endings"
    \* the onset posteriogram is not read again
    /\ onset_preds' = <<>>
    /\ UNCHANGED <<n_outputs, offset_preds, onsets, notes, constrained_notes, cleaned_notes,
                   music_notes>>
    /\ UNCHANGED NotDecode

\* step 4
CreateNotes ==
    /\ stage = "endings"
    /\ notes' = create_notes_from_onsets_and_endings(onsets, note_endings)
    /\ stage' = "raw"
    \* the frame posteriogram is not read again
    /\ frame_preds' = <<>>
    /\ UNCHANGED <<n_outputs, offset_preds, onset_preds, onsets, note_endings, constrained_notes,
                   cleaned_notes, music_notes>>
    /\ UNCHANGED NotDecode

\* step 5
AddVelocity ==
    /\ stage = "raw"
    /\ \E velocity_preds \in VelocityMatrices(notes) :
           notes' = add_velocity_to_notes(notes, velocity_preds)
    /\ stage' = "velocity"
    \* note_endings is not read again
    /\ note_endings' = <<>>
    /\ UNCHANGED <<n_outputs, offset_preds, frame_preds, onset_preds, onsets, constrained_notes, cleaned_notes,
                   music_notes>>
    /\ UNCHANGED NotDecode

\* step 6
ApplyConstraints ==
    /\ stage = "velocity"
    /\ constrained_notes' = apply_musical_constraints(notes)
    /\ stage' = "constrained"
    /\ UNCHANGED <<n_outputs, offset_preds, frame_preds, onset_preds, onsets, note_endings, notes, cleaned_notes,
                   music_notes>>
    /\ UNCHANGED NotDecode

\* step 7; constrained_notes is sorted and changed in place, and notes holds the
\* same dicts
CleanAndMerge ==
    /\ stage = "constrained"
    /\ cleaned_notes' = clean_and_merge_notes(constrained_notes)
    /\ constrained_notes' = merged_in_place(constrained_notes)
    /\ notes' = SameDicts(notes, constrained_notes')
    /\ stage' = "cleaned"
    /\ UNCHANGED <<n_outputs, offset_preds, frame_preds, onset_preds, onsets, note_endings, music_notes>>
    /\ UNCHANGED NotDecode

\* step 8
ConvertToMusicFormat ==
    /\ stage = "cleaned"
    /\ music_notes' = convert_to_music_format(cleaned_notes)
    /\ stage' = "done"
    /\ UNCHANGED <<n_outputs, offset_preds, frame_preds, onset_preds, onsets, note_endings, notes, constrained_notes,
                   cleaned_notes>>
    /\ UNCHANGED NotDecode

DecodeNext ==
    \/ RejectOutputs
    \/ DetectOnsets
    \/ FindEndings
    \/ CreateNotes
    \/ AddVelocity
    \/ ApplyConstraints
    \/ CleanAndMerge
    \/ ConvertToMusicFormat

(***************************************************************************)
(* The chunk coordinator process_long_audio_in_chunks and the entry points *)
(* perform_transcription_with_chunking and process_audio as a state        *)
(* machine.  Feature extraction, model loading and inference are external: *)
(* a decode either raises or yields some note list process_predictions can *)
(* return; decoding the same file twice yields the same notes.  A function *)
(* that catches an exception does so in the step that raises it.           *)
(***************************************************************************)
MaxDurationSteps == 8   \* audio durations reach MaxDurationSteps quarter windows

LongAudioThreshold == 22000

DurationStep == chunk_duration \div 4

Durations == {k * DurationStep + d : k \in 1..MaxDurationSteps, d \in {0, 1}}

Entries == {"process_long_audio_in_chunks", "perform_transcription_with_chunking",
            "process_audio"}

DecodedNote(t, pitch) ==
    [note_name |-> pitch_to_note_name(pitch), time |-> t, duration |-> 96,
     velocity |-> 9000, velocity_midi |-> 114, pitch |-> pitch]

\* n keys from A0 upwards struck in the same frame
Chord(t, n) == [i \in 1..n |-> DecodedNote(t, 20 + i)]

\* window-local onset times: frames 36, 599 and 612
LocalTimes == {36 * time_resolution, 599 * time_resolution, 612 * time_resolution}

ChordSizes == {1, LookBack + 1}

\* the note lists a decode may yield: nothing, one chord, or two single notes
\* in time order
DecodeOutputs ==
    {<<>>}
    \cup {Chord(t, n) : t \in LocalTimes, n \in ChordSizes}
    \cup {Chord(t[1], 1) \o Chord(t[2], 1) :
              t \in {u \in LocalTimes \X LocalTimes : u[1] < u[2]}}

\* process_audio's test notes (C major scale)
TestNotes ==
    LET scale == <<60, 62, 64, 65, 67, 69, 71, 72>>
    IN  [i \in 1..8 |->
            [note_name |-> pitch_to_note_name(scale[i]), time |-> (i - 1) * 500,
             duration |-> 400, velocity |-> 8000, velocity_midi |-> 100,
             pitch |-> scale[i]]]

Pending == [status |-> "pending", notes |-> <<>>, error |-> ""]

\* (False, None, str(e)) / ({"error": str(e)}, 500)
Failure(reason) == [status |-> "failure", notes |-> <<>>, error |-> reason]

\* "success": True, "notes": notes
Success(note_list) == [status |-> "success", notes |-> note_list, error |-> ""]

\* what decoding audio_path yields when it does not raise
WholeDecodes == IF audio_known THEN {audio_notes} ELSE DecodeOutputs

\* what decoding one chunk's file yields when it does not raise
ChunkDecodes(chunk) == IF chunk.path = AudioPath THEN WholeDecodes ELSE DecodeOutputs

\* a slip: the single-chunk shortcut left out
NeverSingleChunk(chunk_list) == FALSE

\* if len(chunks) == 1
SingleChunk(chunk_list) == Len(chunk_list) = 1

\* where process_long_audio_in_chunks returns to
AfterCoordinator ==
    IF entry = "process_long_audio_in_chunks" THEN "returned" ELSE "midi"

ChunkInit ==
    /\ entry \in Entries
    /\ pc = CASE entry = "process_long_audio_in_chunks" -> "split"
              [] entry = "perform_transcription_with_chunking" -> "load"
              [] OTHER -> "upload"
    /\ total_duration \in Durations
    /\ audio_known = FALSE
    /\ audio_notes = <<>>
    /\ chunks = <<>>
    /\ chunk_index = 1
    /\ chunk_results = <<>>
    /\ all_notes = <<>>
    /\ notes_out = <<>>
    /\ return_site = ""
    /\ response = Pending

\* the chunk variables a step leaves alone, by what it does
splitState == <<chunks, chunk_index, chunk_results, all_notes>>

callState == <<entry, total_duration, return_site>>

audioState == <<audio_known, audio_notes>>

\* perform_transcription_with_chunking: librosa.load and the duration test
LoadAudio ==
    /\ pc = "load"
    /\ pc' = IF total_duration > LongAudioThreshold THEN "split" ELSE "direct"
    /\ UNCHANGED <<callState, audioState, splitState, notes_out, response>>
    /\ UNCHANGED NotChunk

\* ... or the load raises into the outer except
LoadAudioFails ==
    /\ pc = "load"
    /\ response' = Failure("load")
    /\ pc' = "done"
    /\ UNCHANGED <<callState, audioState, splitState, notes_out>>
    /\ UNCHANGED NotChunk

\* perform_transcription_with_chunking, short audio: one direct decode
DirectDecode ==
    /\ pc = "direct"
    /\ \E decoded \in WholeDecodes :
           /\ audio_notes' = decoded
           /\ notes_out' = decoded
    /\ audio_known' = TRUE
    /\ pc' = "midi"
    /\ UNCHANGED <<callState, splitState, response>>
    /\ UNCHANGED NotChunk

DirectDecodeFails ==
    /\ pc = "direct"
    /\ response' = Failure("decode")
    /\ pc' = "done"
    /\ UNCHANGED <<callState, audioState, splitState, notes_out>>
    /\ UNCHANGED NotChunk

\* split_audio_into_chunks returns from its try block
SplitAudio ==
    /\ pc = "split"
    /\ chunks' = split_audio_into_chunks(total_duration)
    /\ pc' = IF SingleChunk(chunks') THEN "single" ELSE "chunks"
    /\ UNCHANGED <<callState, audioState, chunk_index, chunk_results,
                   all_notes, notes_out, response>>
    /\ UNCHANGED NotChunk

\* split_audio_into_chunks: the load or a chunk write raises
SplitAudioFails ==
    /\ pc = "split"
    /\ chunks' = SplitFallback
    /\ pc' = IF SingleChunk(chunks') THEN "single" ELSE "chunks"
    /\ UNCHANGED <<callState, audioState, chunk_index, chunk_results,
                   all_notes, notes_out, response>>
    /\ UNCHANGED NotChunk

\* the single-chunk path of process_long_audio_in_chunks
DecodeSingle ==
    /\ pc = "single"
    /\ \E decoded \in WholeDecodes :
           /\ audio_notes' = decoded
           /\ notes_out' = decoded
    /\ audio_known' = TRUE
    /\ pc' = AfterCoordinator
    /\ return_site' = "single"
    /\ UNCHANGED <<entry, total_duration, splitState, response>>
    /\ UNCHANGED NotChunk

\* ... raises into the except branch of process_long_audio_in_chunks
DecodeSingleFails ==
    /\ pc = "single"
    /\ pc' = "fallback"
    /\ UNCHANGED <<callState, audioState, splitState, notes_out, response>>
    /\ UNCHANGED NotChunk

\* one iteration of the for loop: process_single_chunk returns adjusted notes
ProcessChunk ==
    /\ pc = "chunks"
    /\ chunk_index <= Len(chunks)
    /\ \E decoded \in ChunkDecodes(chunks[chunk_index]) :
           LET adjusted_notes == AdjustedNotes(decoded, chunks[chunk_index].start)
           IN  /\ chunk_results' = Append(chunk_results,
                                          [ok |-> TRUE, notes |-> adjusted_notes])
               /\ all_notes' = all_notes \o adjusted_notes
               /\ IF chunks[chunk_index].path = AudioPath
                  THEN audio_notes' = decoded /\ audio_known' = TRUE
                  ELSE UNCHANGED audioState
    /\ chunk_index' = chunk_index + 1
    /\ UNCHANGED <<callState, pc, chunks, notes_out, response>>
    /\ UNCHANGED NotChunk

\* a slip: process_single_chunk lets the exception through, and the request fails
ProcessChunkAborts ==
    /\ pc = "chunks"
    /\ chunk_index <= Len(chunks)
    /\ chunk_results' = Append(chunk_results, [ok |-> FALSE, notes |-> <<>>])
    /\ response' = Failure("decode")
    /\ pc' = "done"
    /\ UNCHANGED <<callState, audioState, chunks, chunk_index, all_notes, notes_out>>
    /\ UNCHANGED NotChunk

\* one iteration of the for loop: process_single_chunk catches and returns []
ProcessChunkFails ==
    /\ pc = "chunks"
    /\ chunk_index <= Len(chunks)
    /\ chunk_results' = Append(chunk_results, [ok |-> FALSE, notes |-> <<>>])
    /\ all_notes' = all_notes \o <<>>
    /\ chunk_index' = chunk_index + 1
    /\ UNCHANGED <<callState, pc, audioState, chunks, notes_out, response>>
    /\ UNCHANGED NotChunk

\* after the loop: remove_duplicate_notes (which sorts all_notes in place)
RemoveDuplicates ==
    /\ pc = "chunks"
    /\ chunk_index > Len(chunks)
    /\ notes_out' = remove_duplicate_notes(all_notes)
    /\ all_notes' = SortedOnTime(all_notes)
    /\ pc' = AfterCoordinator
    /\ return_site' = "chunks"
    /\ UNCHANGED <<entry, total_duration, audioState, chunks, chunk_index,
                   chunk_results, response>>
    /\ UNCHANGED NotChunk

\* a slip: the except branch gives up and returns no notes
FallbackReturnsNothing ==
    /\ pc = "fallback"
    /\ notes_out' = <<>>
    /\ return_site' = "fallback"
    /\ pc' = AfterCoordinator
    /\ UNCHANGED <<entry, total_duration, audioState, splitState, response>>
    /\ UNCHANGED NotChunk

\* the except branch of process_long_audio_in_chunks: one whole-audio decode
Fallback ==
    /\ pc = "fallback"
    /\ \E decoded \in WholeDecodes :
           /\ audio_notes' = decoded
           /\ notes_out' = decoded
    /\ audio_known' = TRUE
    /\ pc' = AfterCoordinator
    /\ return_site' = "fallback"
    /\ UNCHANGED <<entry, total_duration, splitState, response>>
    /\ UNCHANGED NotChunk

\* ... which raises out of process_long_audio_in_chunks, into the outer except
\* of perform_transcription_with_chunking when that is the caller
FallbackFails ==
    /\ pc = "fallback"
    /\ IF entry = "process_long_audio_in_chunks"
       THEN pc' = "raised" /\ UNCHANGED response
       ELSE pc' = "done" /\ response' = Failure("decode")
    /\ return_site' = "raised"
    /\ UNCHANGED <<entry, total_duration, audioState, splitState, notes_out>>
    /\ UNCHANGED NotChunk

\* process_audio: the file is saved and converted, the spectrogram is fitted
PrepareUpload ==
    /\ pc = "upload"
    /\ pc' = "decode"
    /\ UNCHANGED <<callState, audioState, splitState, notes_out, response>>
    /\ UNCHANGED NotChunk

\* ... or one of these fails: the 500 answers
PrepareUploadFails ==
    /\ pc = "upload"
    /\ response' = Failure("load")
    /\ pc' = "done"
    /\ UNCHANGED <<callState, audioState, splitState, notes_out>>
    /\ UNCHANGED NotChunk

\* process_audio: the inner try decodes ...
DecodeUpload ==
    /\ pc = "decode"
    /\ \E decoded \in WholeDecodes :
           /\ audio_notes' = decoded
           /\ notes_out' = decoded
    /\ audio_known' = TRUE
    /\ pc' = "midi"
    /\ UNCHANGED <<callState, splitState, response>>
    /\ UNCHANGED NotChunk

\* ... and its except branch makes up the test notes
DecodeUploadFails ==
    /\ pc = "decode"
    /\ notes_out' = TestNotes
    /\ pc' = "midi"
    /\ UNCHANGED <<callState, audioState, splitState, response>>
    /\ UNCHANGED NotChunk

\* create_midi_from_notes writes the file, then the success result is returned
WriteMidi ==
    /\ pc = "midi"
    /\ response' = Success(notes_out)
    /\ pc' = "done"
    /\ UNCHANGED <<callState, audioState, splitState, notes_out>>
    /\ UNCHANGED NotChunk

\* ... or writing the MIDI file raises into the outer except
WriteMidiFails ==
    /\ pc = "midi"
    /\ response' = Failure("midi")
    /\ pc' = "done"
    /\ UNCHANGED <<callState, audioState, splitState, notes_out>>
    /\ UNCHANGED NotChunk

ChunkNext ==
    \/ LoadAudio
    \/ LoadAudioFails
    \/ DirectDecode
    \/ DirectDecodeFails
    \/ SplitAudio
    \/ SplitAudioFails
    \/ DecodeSingle
    \/ DecodeSingleFails
    \/ ProcessChunk
    \/ ProcessChunkFails
    \/ RemoveDuplicates
    \/ Fallback
    \/ FallbackFails
    \/ PrepareUpload
    \/ PrepareUploadFails
    \/ DecodeUpload
    \/ DecodeUploadFails
    \/ WriteMidi
    \/ WriteMidiFails

(***************************************************************************)
(* create_midi_from_notes as a state machine: one call on a note list      *)
(***************************************************************************)
MaxMidiNotes == 2   \* notes passed to create_midi_from_notes

MidiTimes == {0 - time_resolution, 0, time_resolution, 2000}

MidiDurations == {0, 1, 2 * time_resolution, 500}

MidiPitches == {60, 72}

MidiVelocities == {5, 114}

\* velocities at the edges: silent, just above the ceiling, the decoder's
\* floor and the top of the scale
EdgeMidiVelocities == {0, 6, 20, 127}

\* any time, duration, pitch and velocity, one note at each edge velocity, and
\* one note of the higher pitch that ends on the tick where a note at one
\* frame starts
MidiNotes ==
    {[time |-> t, duration |-> d, pitch |-> p, velocity_midi |-> v] :
        t \in MidiTimes, d \in MidiDurations, p \in MidiPitches, v \in MidiVelocities}
    \cup {[time |-> 0, duration |-> 2 * time_resolution, pitch |-> 60,
           velocity_midi |-> v] : v \in EdgeMidiVelocities}
    \cup {[time |-> 0, duration |-> time_resolution, pitch |-> 72,
            velocity_midi |-> 114]}

MidiInputs == UNION {[1..n -> MidiNotes] : n \in 0..MaxMidiNotes}

MidiInit ==
    /\ midi_pc = "call"
    /\ midi_notes \in MidiInputs
    /\ events = <<>>
    /\ track = <<>>

\* the function runs to its return
CreateMidi ==
    /\ midi_pc = "call"
    /\ events' = midi_events(midi_notes)
    /\ track' = midi_track(midi_notes)
    /\ midi_pc' = "returned"
    /\ UNCHANGED midi_notes
    /\ UNCHANGED NotMidi

\* mid.save raises: the track was built, no file is written
CreateMidiFails ==
    /\ midi_pc = "call"
    /\ events' = midi_events(midi_notes)
    /\ track' = midi_track(midi_notes)
    /\ midi_pc' = "raised"
    /\ UNCHANGED midi_notes
    /\ UNCHANGED NotMidi

MidiNext ==
    \/ CreateMidi
    \/ CreateMidiFails

(***************************************************************************)
(* apply_music_language_constraints as a state machine: step 1, then one   *)
(* step per frame of the polyphony loop.                                   *)
(***************************************************************************)
RollFrames == 4     \* frames of a piano roll

\* confidences of three pitches sounding together: 0.9, 0.5 and 0.2
GradedConfidences == <<9000, 5000, 2000>>

\* pitches of a piano roll
RollPitches == Len(GradedConfidences)

\* confidences per pitch: graded, or the 1.0 of a binary roll
ConfidenceProfiles == {GradedConfidences, [p \in 1..RollPitches |-> 10000]}

PianoRolls ==
    {[p \in 1..RollPitches |-> [i \in 1..RollFrames |->
          IF <<p, i>> \in on THEN profile[p] ELSE 0]] :
              on \in SUBSET ((1..RollPitches) \X (1..RollFrames)),
              profile \in ConfidenceProfiles}

SoloFrames == 7     \* frames of a piano roll with one sounding pitch

\* binary rolls in which only the lowest pitch sounds
SoloRolls ==
    {[p \in 1..RollPitches |-> [i \in 1..SoloFrames |->
          IF p = 1 THEN row[i] ELSE 0]] : row \in [1..SoloFrames -> {0, 10000}]}

\* max_polyphony: a positive number of simultaneous notes
Polyphonies == {1, 2}

RollInit ==
    /\ roll_pc = "call"
    /\ piano_roll \in PianoRolls \cup SoloRolls
    /\ max_polyphony \in Polyphonies
    /\ corrected = piano_roll
    /\ roll_t = 0

\* step 1: remove very short notes, merge notes with small gaps
SegmentPass ==
    /\ roll_pc = "call"
    /\ corrected' = RemoveShortAndMerge(piano_roll)
    /\ roll_pc' = "polyphony"
    /\ UNCHANGED <<piano_roll, max_polyphony, roll_t>>
    /\ UNCHANGED NotRoll

\* step 2, one frame with more active notes than the cap
LimitFrame ==
    /\ roll_pc = "polyphony"
    /\ roll_t < RollWidth(piano_roll)
    /\ LET active_notes == ActiveNotes(corrected, roll_t)
       IN  /\ Cardinality(active_notes) > max_polyphony
           /\ \E keep \in KeepSets(piano_roll, active_notes, roll_t, max_polyphony) :
                  corrected' = Silenced(corrected, active_notes \ keep, roll_t)
    /\ roll_t' = roll_t + 1
    /\ UNCHANGED <<roll_pc, piano_roll, max_polyphony>>
    /\ UNCHANGED NotRoll

\* step 2, one frame within the cap
PassFrame ==
    /\ roll_pc = "polyphony"
    /\ roll_t < RollWidth(piano_roll)
    /\ Cardinality(ActiveNotes(corrected, roll_t)) <= max_polyphony
    /\ roll_t' = roll_t + 1
    /\ UNCHANGED <<roll_pc, piano_roll, max_polyphony, corrected>>
    /\ UNCHANGED NotRoll

\* return corrected
ReturnCorrected ==
    /\ roll_pc = "polyphony"
    /\ roll_t = RollWidth(piano_roll)
    /\ roll_pc' = "returned"
    /\ UNCHANGED <<piano_roll, max_polyphony, corrected, roll_t>>
    /\ UNCHANGED NotRoll

RollNext ==
    \/ SegmentPass
    \/ LimitFrame
    \/ PassFrame
    \/ ReturnCorrected

RollIdle ==
    /\ roll_pc = "idle"
    /\ piano_roll = <<>>
    /\ max_polyphony = 12
    /\ corrected = <<>>
    /\ roll_t = 0

MidiIdle ==
    /\ midi_pc = "idle"
    /\ midi_notes = <<>>
    /\ events = <<>>
    /\ track = <<>>

DecodeIdle ==
    /\ stage = "idle"
    /\ n_outputs = 3
    /\ onset_preds = <<>>
    /\ offset_preds = <<>>
    /\ frame_preds = <<>>
    /\ onsets = <<>>
    /\ note_endings = <<>>
    /\ notes = <<>>
    /\ constrained_notes = <<>>
    /\ cleaned_notes = <<>>
    /\ music_notes = <<>>

ChunkIdle ==
    /\ entry = "none"
    /\ pc = "idle"
    /\ total_duration = 0
    /\ audio_known = FALSE
    /\ audio_notes = <<>>
    /\ chunks = <<>>
    /\ chunk_index = 1
    /\ chunk_results = <<>>
    /\ all_notes = <<>>
    /\ notes_out = <<>>
    /\ return_site = ""
    /\ response = Pending

(***************************************************************************)
(* Steps 6 to 8 of process_predictions on a whole window of 626 frames,    *)
(* entered with the notes steps 1 to 5 have made: every one of them passed *)
(* the duration test of create_notes_from_onsets_and_endings, and a note   *)
(* of a pitch starts after the end of the one before it.                   *)
(***************************************************************************)
\* note lengths in frames: the shortest kept, 6.4 s, and the longest kept
WindowLengths == {2, 200, 250}

\* frames from the end of a note to the onset of the next
WindowGaps == {1, 2, 40}

WindowNote(onset_frame, length, pitch_idx) ==
    WithVelocity([onset_frame |-> onset_frame,
                  offset_frame |-> onset_frame + length,
                  pitch_idx |-> pitch_idx,
                  duration_seconds |-> length * time_resolution,
                  onset_confidence |-> 10000], 9000)

\* one note, or two in onset order
WindowNotes ==
    {<<WindowNote(0, l, p)>> : l \in WindowLengths, p \in Channels}
    \cup {<<WindowNote(0, l[1], p[1]), WindowNote(l[1] + g, l[2], p[2])>> :
              l \in WindowLengths \X WindowLengths, g \in WindowGaps,
              p \in Channels \X Channels}

WindowInit ==
    /\ stage = "velocity"
    /\ n_outputs = 3
    /\ onset_preds = <<>>
    /\ offset_preds = <<>>
    /\ frame_preds = <<>>
    /\ notes \in WindowNotes
    /\ onsets = [i \in DOMAIN notes |->
                    [time |-> notes[i].onset_frame, pitch |-> notes[i].pitch_idx,
                     confidence |-> notes[i].onset_confidence]]
    /\ note_endings = <<>>
    /\ constrained_notes = <<>>
    /\ cleaned_notes = <<>>
    /\ music_notes = <<>>

WindowNext ==
    \/ ApplyConstraints
    \/ CleanAndMerge
    \/ ConvertToMusicFormat

(***************************************************************************)
(* One pass of the loop body of detect_onsets_with_peaks, on one channel,  *)
(* for a postprocessor constructed with the frame period 32 ms (as app.py  *)
(* constructs it), 20 ms or 16 ms: the distance given to find_peaks is     *)
(* int(0.05 / time_resolution) = 1, 2 or 3 frames.                         *)
(***************************************************************************)
CurveFrames == 6   \* frames of the channel

CurveLevels == {0, 2000, 6000, 10000}

Resolutions == {32, 20, 16}

\* int(0.05 / self.time_resolution)
PeakDistance(resolution) == 50 \div resolution

\* find_peaks on the channel, then the three appends per peak
ChannelOnsets(onset_curve, resolution) ==
    LET peaks == find_peaks(onset_curve, onset_threshold, PeakDistance(resolution),
                            peak_prominence)
    IN  [i \in 1..Len(peaks) |->
            [time |-> peaks[i], confidence |-> At(onset_curve, peaks[i])]]

PeakInit ==
    /\ peak_pc = "call"
    /\ peak_resolution \in Resolutions
    /\ peak_curve \in [1..CurveFrames -> CurveLevels]
    /\ channel_onsets = <<>>

FindChannelPeaks ==
    /\ peak_pc = "call"
    /\ channel_onsets' = ChannelOnsets(peak_curve, peak_resolution)
    /\ peak_pc' = "found"
    /\ UNCHANGED <<peak_resolution, peak_curve>>
    /\ UNCHANGED NotPeak

PeakNext == FindChannelPeaks

PeakIdle ==
    /\ peak_pc = "idle"
    /\ peak_resolution = time_resolution
    /\ peak_curve = <<>>
    /\ channel_onsets = <<>>

(***************************************************************************)
(* The model loader of the server: request threads calling get_model,      *)
(* safe_reset and is_model_ready of the one StableModelLoader, which wraps *)
(* the one ModelLoader.  Time is in seconds.                               *)
(***************************************************************************)
NumThreads == 2    \* request threads in flight at once

MaxRequests == 4   \* requests the server takes

MaxElapsed == 45   \* seconds the clock runs on

ClockStart == 1700000000   \* time.time() when the server starts

ClockStep == 15    \* seconds between two readings of the clock

reset_cooldown == 30

Threads == 1..NumThreads

LoaderCalls == {"get_model", "safe_reset", "is_model_ready"}

\* the methods the class ModelLoader defines
ModelLoaderMethods == {"__init__", "get_model", "load_model", "is_model_ready"}

\* calling a method the object does not have raises AttributeError
RaisesAttributeError(method) == method \notin ModelLoaderMethods

NoResult == [kind |-> "none", model |-> 0]

Returned(kind, m) == [kind |-> kind, model |-> m]

\* the mutual exclusion dropped: every thread enters at once
LockIgnored(t) == TRUE

\* threading.Lock lets a thread in only while no thread holds it
LockFree(t) == lock = 0

\* current_time - self.last_reset_time > self.reset_cooldown
CooldownElapsed(current_time) == current_time - last_reset_time > reset_cooldown

LoaderInit ==
    /\ model = 0
    /\ loads = 0
    /\ lock = 0
    /\ last_reset_time = 0
    /\ clock = ClockStart
    /\ requests = 0
    /\ thread_pc = [t \in Threads |-> "idle"]
    /\ thread_call = [t \in Threads |-> "none"]
    /\ thread_result = [t \in Threads |-> NoResult]

\* a request handler reaches its call of the loader
Request(t, call) ==
    /\ thread_pc[t] = "idle"
    /\ requests < MaxRequests
    /\ requests' = requests + 1
    /\ thread_pc' = [thread_pc EXCEPT ![t] = "called"]
    /\ thread_call' = [thread_call EXCEPT ![t] = call]
    /\ thread_result' = [thread_result EXCEPT ![t] = NoResult]
    /\ UNCHANGED <<model, loads, lock, last_reset_time, clock>>
    /\ UNCHANGED NotLoader

\* is_model_ready: no lock taken
IsModelReady(t) ==
    /\ thread_pc[t] = "called"
    /\ thread_call[t] = "is_model_ready"
    /\ thread_result' = [thread_result EXCEPT ![t] =
                            Returned(IF model # 0 THEN "True" ELSE "False", 0)]
    /\ thread_pc' = [thread_pc EXCEPT ![t] = "done"]
    /\ UNCHANGED <<model, loads, lock, last_reset_time, clock, requests, thread_call>>
    /\ UNCHANGED NotLoader

\* with self.lock: of get_model and of safe_reset
Acquire(t) ==
    /\ thread_pc[t] = "called"
    /\ thread_call[t] \in {"get_model", "safe_reset"}
    /\ LockFree(t)
    /\ lock' = t
    /\ thread_pc' = [thread_pc EXCEPT ![t] = "locked"]
    /\ UNCHANGED <<model, loads, last_reset_time, clock, requests, thread_call,
                   thread_result>>
    /\ UNCHANGED NotLoader

\* ModelLoader.get_model with the model there: returned as it is
ReturnLoaded(t) ==
    /\ thread_pc[t] = "locked"
    /\ thread_call[t] = "get_model"
    /\ model # 0
    /\ thread_result' = [thread_result EXCEPT ![t] = Returned("model", model)]
    /\ thread_pc' = [thread_pc EXCEPT ![t] = "done"]
    /\ lock' = 0
    /\ UNCHANGED <<model, loads, last_reset_time, clock, requests, thread_call>>
    /\ UNCHANGED NotLoader

\* ModelLoader.get_model with self.model None: load_model is entered
LoadStart(t) ==
    /\ thread_pc[t] = "locked"
    /\ thread_call[t] = "get_model"
    /\ model = 0
    /\ thread_pc' = [thread_pc EXCEPT ![t] = "loading"]
    /\ UNCHANGED <<model, loads, lock, last_reset_time, clock, requests, thread_call,
                   thread_result>>
    /\ UNCHANGED NotLoader

\* load_model assigns self.model and get_model returns it
LoadSucceeds(t) ==
    /\ thread_pc[t] = "loading"
    /\ loads' = loads + 1
    /\ model' = loads'
    /\ thread_result' = [thread_result EXCEPT ![t] = Returned("model", model')]
    /\ thread_pc' = [thread_pc EXCEPT ![t] = "done"]
    /\ lock' = 0
    /\ UNCHANGED <<last_reset_time, clock, requests, thread_call>>
    /\ UNCHANGED NotLoader

\* load_model raises and the except branch of get_model runs: past the
\* cooldown it calls self.model_loader.reset(), which raises before the time
\* is recorded, and that error is raised on; within it the load error is
LoadFails(t) ==
    /\ thread_pc[t] = "loading"
    /\ LET current_time == clock
       IN  IF CooldownElapsed(current_time)
           THEN IF RaisesAttributeError("reset")
                THEN /\ thread_result' = [thread_result EXCEPT ![t] =
                                             Returned("AttributeError", 0)]
                     /\ thread_pc' = [thread_pc EXCEPT ![t] = "done"]
                     /\ lock' = 0
                     /\ UNCHANGED last_reset_time
                ELSE /\ last_reset_time' = current_time
                     /\ thread_pc' = [thread_pc EXCEPT ![t] = "locked"]
                     /\ UNCHANGED <<lock, thread_result>>
           ELSE /\ thread_result' = [thread_result EXCEPT ![t] =
                                        Returned("LoadError", 0)]
                /\ thread_pc' = [thread_pc EXCEPT ![t] = "done"]
                /\ lock' = 0
                /\ UNCHANGED last_reset_time
    /\ UNCHANGED <<model, loads, clock, requests, thread_call>>
    /\ UNCHANGED NotLoader

\* the body of safe_reset
SafeReset(t) ==
    /\ thread_pc[t] = "locked"
    /\ thread_call[t] = "safe_reset"
    /\ LET current_time == clock
       IN  IF CooldownElapsed(current_time) /\ ~RaisesAttributeError("reset")
           THEN /\ last_reset_time' = current_time
                /\ thread_result' = [thread_result EXCEPT ![t] = Returned("True", 0)]
           ELSE /\ thread_result' = [thread_result EXCEPT ![t] = Returned("False", 0)]
                /\ UNCHANGED last_reset_time
    /\ thread_pc' = [thread_pc EXCEPT ![t] = "done"]
    /\ lock' = 0
    /\ UNCHANGED <<model, loads, clock, requests, thread_call>>
    /\ UNCHANGED NotLoader

\* the request handler answers and the thread takes the next request
Finish(t) ==
    /\ thread_pc[t] = "done"
    /\ thread_pc' = [thread_pc EXCEPT ![t] = "idle"]
    /\ UNCHANGED <<model, loads, lock, last_reset_time, clock, requests, thread_call,
                   thread_result>>
    /\ UNCHANGED NotLoader

\* the clock moves on
Tick ==
    /\ clock + ClockStep <= ClockStart + MaxElapsed
    /\ clock' = clock + ClockStep
    /\ UNCHANGED <<model, loads, lock, last_reset_time, requests, thread_pc,
                   thread_call, thread_result>>
    /\ UNCHANGED NotLoader

LoaderNext ==
    \/ \E t \in Threads, call \in LoaderCalls : Request(t, call)
    \/ \E t \in Threads : IsModelReady(t)
    \/ \E t \in Threads : Acquire(t)
    \/ \E t \in Threads : ReturnLoaded(t)
    \/ \E t \in Threads : LoadStart(t)
    \/ \E t \in Threads : LoadSucceeds(t)
    \/ \E t \in Threads : LoadFails(t)
    \/ \E t \in Threads : SafeReset(t)
    \/ \E t \in Threads : Finish(t)
    \/ Tick

LoaderIdle ==
    /\ model = 0
    /\ loads = 0
    /\ lock = 0
    /\ last_reset_time = 0
    /\ clock = 0
    /\ requests = 0
    /\ thread_pc = <<>>
    /\ thread_call = <<>>
    /\ thread_result = <<>>

(***************************************************************************)
(* Specifications                                                          *)
(***************************************************************************)
\* one call of process_predictions
InitDecode == DecodeInit /\ ChunkIdle /\ MidiIdle /\ RollIdle /\ PeakIdle /\ LoaderIdle

SpecDecode == InitDecode /\ [][DecodeNext]_vars

\* one call of an entry point that transcribes an audio file
InitChunk == ChunkInit /\ DecodeIdle /\ MidiIdle /\ RollIdle /\ PeakIdle /\ LoaderIdle

SpecChunk == InitChunk /\ [][ChunkNext]_vars

\* one call of create_midi_from_notes
InitMidi == MidiInit /\ DecodeIdle /\ ChunkIdle /\ RollIdle /\ PeakIdle /\ LoaderIdle

SpecMidi == InitMidi /\ [][MidiNext]_vars

\* one call of apply_music_language_constraints
InitRoll == RollInit /\ DecodeIdle /\ ChunkIdle /\ MidiIdle /\ PeakIdle /\ LoaderIdle

SpecRoll == InitRoll /\ [][RollNext]_vars

\* the last steps of process_predictions on a whole window
InitWindow == WindowInit /\ ChunkIdle /\ MidiIdle /\ RollIdle /\ PeakIdle /\ LoaderIdle

SpecWindow == InitWindow /\ [][WindowNext]_vars

\* detect_onsets_with_peaks on one channel
InitPeak == PeakInit /\ DecodeIdle /\ ChunkIdle /\ MidiIdle /\ RollIdle /\ LoaderIdle

SpecPeak == InitPeak /\ [][PeakNext]_vars

\* the request threads of the server at the model loader
InitLoader == LoaderInit /\ DecodeIdle /\ ChunkIdle /\ MidiIdle /\ RollIdle /\ PeakIdle

SpecLoader == InitLoader /\ [][LoaderNext]_vars

\* a decode or a transcription
Init == InitDecode \/ InitChunk

Next == DecodeNext \/ ChunkNext

Spec == Init /\ [][Next]_vars

(***************************************************************************)
(* Properties                                                              *)
(***************************************************************************)
SortedByTime(note_list) ==
    \A i \in 1..(Len(note_list) - 1) : note_list[i].time <= note_list[i + 1].time

\* process_predictions has returned
DecodeReturned == stage = "done"

\* process_long_audio_in_chunks has returned
CoordinatorReturned == return_site \in {"single", "chunks", "fallback"}

\* C1: the list process_predictions returns, and the list
\* process_long_audio_in_chunks returns from its single-chunk, multi-chunk or
\* fallback return statement, is non-decreasing in the notes' start time.
C1_SortedOutput ==
    /\ DecodeReturned => SortedByTime(music_notes)
    /\ CoordinatorReturned => SortedByTime(notes_out)

\* a decode returned two notes that the merge pass had left in pitch order with
\* the later note first
C1_Witness ==
    /\ DecodeReturned
    /\ Len(music_notes) >= 2
    /\ \E i \in 1..(Len(cleaned_notes) - 1) :
           cleaned_notes[i].onset_frame > cleaned_notes[i + 1].onset_frame

\* C2: every note process_predictions returns has a MIDI pitch in 21..108 and
\* a duration of at least min_note_duration, merged notes included.
C2_PitchAndDurationRange ==
    DecodeReturned =>
        \A i \in DOMAIN music_notes :
            /\ 21 <= music_notes[i].pitch
            /\ music_notes[i].pitch <= 108
            /\ music_notes[i].duration >= min_note_duration

\* a decode returned a note on the top key next to one the merge pass had
\* lengthened
C2_Witness ==
    /\ DecodeReturned
    /\ \E i \in DOMAIN music_notes : music_notes[i].pitch = 108
    /\ Len(cleaned_notes) < Len(constrained_notes)

\* C4: clean_and_merge_notes applied to the list it returned gives that list
\* back: no note is merged, changed or dropped.
C4_MergeIdempotent ==
    stage \in {"cleaned", "done"} =>
        clean_and_merge_notes(cleaned_notes) = cleaned_notes

\* the merge pass has merged a run of three notes of one pitch into one
C4_Witness ==
    /\ stage = "cleaned"
    /\ \E p \in Channels :
           /\ Cardinality({i \in DOMAIN constrained_notes :
                               constrained_notes[i].pitch_idx = p}) >= 3
           /\ Cardinality({i \in DOMAIN cleaned_notes :
                               cleaned_notes[i].pitch_idx = p}) = 1

\* two notes of one pitch less than a frame apart: the same onset seen through
\* two windows (adjacent windows' frame grids are 16 ms apart)
SameOnset(a, b) == a.pitch = b.pitch /\ Abs(a.time - b.time) < time_resolution

NotesOf(note_list) == {note_list[k] : k \in DOMAIN note_list}

\* C3: when two chunks each contribute a note of one pitch at the same global
\* time, the list remove_duplicate_notes returns holds exactly one note of that
\* pitch at that time, whatever else the chunks hold.
C3_OneNotePerOverlapDuplicate ==
    return_site = "chunks" =>
        \A i, j \in DOMAIN chunk_results :
            i < j =>
                \A a \in NotesOf(chunk_results[i].notes),
                   b \in NotesOf(chunk_results[j].notes) :
                    SameOnset(a, b) =>
                        Cardinality({k \in DOMAIN notes_out :
                                        SameOnset(notes_out[k], a)}) = 1

\* split_audio_into_chunks has returned from its try block
SplitSucceeded == chunks # <<>> /\ chunks # SplitFallback

\* C6: for a total duration D <= chunk_duration the splitter returns the one
\* chunk (0, D); for a longer D the first chunk starts at 0, every chunk but the
\* last is chunk_duration long, each next chunk starts overlap_duration before
\* the end of the one before it, the last chunk ends at D, and no gap is left.
C6_SplitGeometry ==
    SplitSucceeded =>
        IF total_duration <= chunk_duration
        THEN /\ Len(chunks) = 1
             /\ chunks[1].start = 0
             /\ chunks[1].end = total_duration
        ELSE /\ Len(chunks) >= 2
             /\ chunks[1].start = 0
             /\ \A i \in 1..(Len(chunks) - 1) :
                    /\ chunks[i].end - chunks[i].start = chunk_duration
                    /\ chunks[i + 1].start = chunks[i].end - overlap_duration
                    /\ chunks[i + 1].start <= chunks[i].end
                    /\ chunks[i + 1].end > chunks[i].end
             /\ chunks[Len(chunks)].end = total_duration

\* an audio file was split into three chunks
C6_Witness == SplitSucceeded /\ Len(chunks) = 3

\* C7: for audio exactly chunk_duration long, process_long_audio_in_chunks
\* returns the notes that decoding the whole file as one window yields.
C7_SingleChunkEquivalence ==
    (CoordinatorReturned /\ total_duration = chunk_duration) =>
        audio_known /\ notes_out = audio_notes

\* such a file was transcribed, and its decode holds two notes that
\* remove_duplicate_notes would take for duplicates
C7_Witness ==
    /\ CoordinatorReturned
    /\ total_duration = chunk_duration
    /\ SplitSucceeded
    /\ remove_duplicate_notes(notes_out) # notes_out

\* some chunk's decode has raised
SomeChunkFailed == \E i \in DOMAIN chunk_results : ~chunk_results[i].ok

RECURSIVE NotesOfChunks(_)
\* the notes the chunks contributed, in chunk order
NotesOfChunks(results) ==
    IF results = <<>> THEN <<>>
    ELSE Head(results).notes \o NotesOfChunks(Tail(results))

\* C8 as stated: whenever splitting failed or some chunk's decode failed, the
\* coordinator returns the notes of one decode of the whole audio.
C8_FallbackOnAnyFailure ==
    (CoordinatorReturned /\ (chunks = SplitFallback \/ SomeChunkFailed)) =>
        audio_known /\ notes_out = audio_notes

\* C8, as the code has it: when splitting fails the whole audio is decoded on
\* the single-chunk path; when that path's decode raises, the except branch
\* decodes the whole audio and its notes are returned; one chunk of several
\* failing never reaches the except branch.
C8_FallbackOnSinglePathFailure ==
    /\ (CoordinatorReturned /\ chunks = SplitFallback) =>
           (return_site # "chunks" /\ audio_known /\ notes_out = audio_notes)
    /\ (pc = "fallback" \/ return_site \in {"fallback", "raised"}) =>
           (SingleChunk(chunks) /\ chunk_results = <<>>)
    /\ return_site = "fallback" => (audio_known /\ notes_out = audio_notes)
    /\ SomeChunkFailed => (pc # "fallback" /\ return_site \in {"", "chunks"})

\* splitting failed, the single-chunk decode raised, and the except branch
\* returned the notes of its decode
C8_Witness ==
    /\ chunks = SplitFallback
    /\ return_site = "fallback"
    /\ notes_out # <<>>

\* C9: a chunk whose decode raises contributes no notes; the other chunks'
\* notes are shifted, deduplicated and returned; and
\* perform_transcription_with_chunking reports success unless a later step
\* (writing the MIDI file) fails.
C9_PartialFailureDegrades ==
    SomeChunkFailed =>
        /\ \A i \in DOMAIN chunk_results :
               ~chunk_results[i].ok => chunk_results[i].notes = <<>>
        /\ return_site = "chunks" =>
               notes_out = remove_duplicate_notes(NotesOfChunks(chunk_results))
        /\ pc = "done" => response \in {Success(notes_out), Failure("midi")}

\* one chunk failed, and the caller got a success result with another chunk's notes
C9_Witness ==
    /\ entry = "perform_transcription_with_chunking"
    /\ pc = "done"
    /\ SomeChunkFailed
    /\ response.status = "success"
    /\ response.notes # <<>>

\* no decode of the audio, or of a chunk of it, has succeeded
NothingDecoded ==
    /\ ~audio_known
    /\ \A i \in DOMAIN chunk_results : ~chunk_results[i].ok

\* C10: when the transcription as a whole fails, the caller gets a failure
\* result without notes, never a success result.
C10_FailureIsReported ==
    (pc = "done" /\ NothingDecoded) =>
        (response.status = "failure" /\ response.notes = <<>>)

\* the tick of a time in ms at 960 ticks per second: floor(ms * 960 / 1000)
TickOf(ms) == (ms * 24) \div 25

\* the notes create_midi_from_notes does not skip
ValidMidiNotes ==
    {midi_notes[k] : k \in {i \in DOMAIN midi_notes :
                               midi_notes[i].time >= 0 /\ midi_notes[i].duration > 0}}

HasEvent(type, pitch, tick) ==
    \E i \in DOMAIN events :
        events[i].type = type /\ events[i].pitch = pitch /\ events[i].tick = tick

\* C5 as stated: every valid note has its on-event at the tick of its start
\* time and its off-event at the tick of start time + duration.
C5_OffEventAtTickOfEnd ==
    midi_pc = "returned" =>
        \A n \in ValidMidiNotes :
            /\ HasEvent("note_on", n.pitch, TickOf(n.time))
            /\ HasEvent("note_off", n.pitch, TickOf(n.time + n.duration))

\* C5: at 960 ticks per second every valid note has its on-event at the tick of
\* its start time and its off-event at that tick plus the whole ticks of its
\* duration (at least one), which is within one tick of the tick of start time
\* + duration; a note at 2.0 s lasting 0.5 s gets ticks 1920 and 2400; skipped
\* notes get no event.
C5_OffEventAtOnsetPlusDurationTicks ==
    midi_pc = "returned" =>
        /\ Len(events) = 2 * Cardinality({i \in DOMAIN midi_notes :
                                              midi_notes[i] \in ValidMidiNotes})
        /\ \A n \in ValidMidiNotes :
               LET on == TickOf(n.time)
                   off == on + Max2(1, TickOf(n.duration))
               IN  /\ HasEvent("note_on", n.pitch, on)
                   /\ HasEvent("note_off", n.pitch, off)
                   /\ Abs(off - TickOf(n.time + n.duration)) <= 1
                   /\ (n.time = 2000 /\ n.duration = 500) => (on = 1920 /\ off = 2400)

\* the formatter returned the events of a note at 2.0 s lasting 0.5 s and of a
\* note whose off-event is one tick before the tick of its end
C5_Witness ==
    /\ midi_pc = "returned"
    /\ Len(events) = 4
    /\ \E n \in ValidMidiNotes : n.time = 2000 /\ n.duration = 500
    /\ HasEvent("note_on", 60, 1920)
    /\ HasEvent("note_off", 60, 2400)
    /\ \E n \in ValidMidiNotes :
           ~HasEvent("note_off", n.pitch, TickOf(n.time + n.duration))

\* add_velocity_to_notes has returned and nothing has changed its notes since
VelocityAdded == stage = "velocity"

\* C11: every note leaving add_velocity_to_notes has velocity_midi =
\* floor(clamp(raw velocity, 0, 1) * 127), except that a value below 20 is
\* replaced by 60 (raw 0.05 gives 6, hence 60); so velocity_midi is in 20..127.
C11_VelocityFloor ==
    VelocityAdded =>
        \A i \in DOMAIN notes :
            LET raw == notes[i].velocity_raw
                clamped == IF raw < 0 THEN 0 ELSE IF raw > 10000 THEN 10000 ELSE raw
                scaled == (clamped * 127) \div 10000
            IN  /\ notes[i].velocity_midi = (IF scaled < 20 THEN 60 ELSE scaled)
                /\ notes[i].velocity_midi >= 20
                /\ notes[i].velocity_midi <= 127
                /\ raw = 500 => notes[i].velocity_midi = 60

\* velocities were added to a note read at 0.05, raised to 60, and to a note
\* read at 0.9
C11_Witness ==
    /\ VelocityAdded
    /\ \E i \in DOMAIN notes : notes[i].velocity_raw = 500 /\ notes[i].velocity_midi = 60
    /\ \E i \in DOMAIN notes : notes[i].velocity_raw = 9000 /\ notes[i].velocity_midi = 114

\* apply_music_language_constraints has returned
RollReturned == roll_pc = "returned"

\* the frame has three active notes of confidences 0.9, 0.5 and 0.2 when the
\* polyphony loop reaches it
GradedFrame(t) ==
    /\ ActiveNotes(RemoveShortAndMerge(piano_roll), t) = {0, 1, 2}
    /\ Cell(piano_roll, 0, t) = 9000
    /\ Cell(piano_roll, 1, t) = 5000
    /\ Cell(piano_roll, 2, t) = 2000

\* C12: after apply_music_language_constraints every frame has at most
\* max_polyphony active pitches; in a frame over the cap exactly max_polyphony
\* remain, none of lower confidence than a silenced one; a frame within the cap
\* is left as step 1 made it; with max_polyphony = 2 and confidences 0.9, 0.5,
\* 0.2 the 0.2 note is silenced and the other two remain.
C12_PolyphonyCap ==
    RollReturned =>
        LET before == RemoveShortAndMerge(piano_roll)
        IN  \A t \in 0..(RollWidth(piano_roll) - 1) :
                LET was == ActiveNotes(before, t)
                    now == ActiveNotes(corrected, t)
                IN  /\ Cardinality(now) <= max_polyphony
                    /\ now \subseteq was
                    /\ \A k \in now : Cell(corrected, k, t) = Cell(before, k, t)
                    /\ \A k \in now, r \in was \ now :
                           Cell(piano_roll, k, t) >= Cell(piano_roll, r, t)
                    /\ Cardinality(was) <= max_polyphony => now = was
                    /\ Cardinality(was) > max_polyphony =>
                           Cardinality(now) = max_polyphony
                    /\ (max_polyphony = 2 /\ GradedFrame(t)) => now = {0, 1}

\* the call returned with cap 2 after silencing the 0.2 note in one frame of
\* three active notes and leaving a frame of two active notes alone
C12_Witness ==
    /\ RollReturned
    /\ max_polyphony = 2
    /\ \E t \in 0..(RollWidth(piano_roll) - 1) :
           GradedFrame(t) /\ ActiveNotes(corrected, t) = {0, 1}
    /\ \E t \in 0..(RollWidth(piano_roll) - 1) :
           /\ Cardinality(ActiveNotes(RemoveShortAndMerge(piano_roll), t)) = 2
           /\ Cardinality(ActiveNotes(corrected, t)) = 2

\* create_midi_from_notes has returned
MidiReturned == midi_pc = "returned"

\* how many of the note messages of the track have this type and pitch
CountMessages(type, pitch) ==
    Cardinality({i \in DOMAIN track : track[i].type = type /\ track[i].note = pitch})

\* how many of the notes passed in are valid and have this pitch
CountValid(pitch) ==
    Cardinality({i \in DOMAIN midi_notes :
                    /\ midi_notes[i].time >= 0
                    /\ midi_notes[i].duration > 0
                    /\ midi_notes[i].pitch = pitch})

\* C13: create_midi_from_notes emits exactly one note_on and one note_off for
\* each note with time >= 0 and duration > 0 and nothing for any other note:
\* per pitch there are as many note_on and as many note_off messages as valid
\* notes, and the note messages are twice the valid notes.
C13_TwoEventsPerValidNote ==
    MidiReturned =>
        /\ \A pitch \in MidiPitches :
               /\ CountMessages("note_on", pitch) = CountValid(pitch)
               /\ CountMessages("note_off", pitch) = CountValid(pitch)
        /\ Len(events) = 2 * Cardinality({i \in DOMAIN midi_notes :
                                 midi_notes[i].time >= 0 /\ midi_notes[i].duration > 0})
        /\ Len(track) = 1 + Len(events)
        /\ \A i \in DOMAIN track :
               track[i].type \in {"note_on", "note_off"} => track[i].note \in MidiPitches

\* the formatter returned two messages for a valid note and none for a note of
\* duration 0 passed with it
C13_Witness ==
    /\ MidiReturned
    /\ Len(midi_notes) = 2
    /\ \E i \in DOMAIN midi_notes : midi_notes[i].time >= 0 /\ midi_notes[i].duration = 0
    /\ \E i \in DOMAIN midi_notes : midi_notes[i].time < 0 \/ midi_notes[i].duration > 0
    /\ Len(track) = 3

\* the sum of the delta times of the first n messages of the track
RECURSIVE DeltaSum(_)
DeltaSum(n) == IF n = 0 THEN 0 ELSE DeltaSum(n - 1) + track[n].time

\* C14: the track create_midi_from_notes writes starts with the tempo
\* meta-event at time 0; its note messages follow in non-decreasing absolute
\* tick, each with a delta time >= 0, and the deltas up to a message sum to its
\* absolute tick, so the clamp to >= 0 changes nothing.
C14_DeltaEncoding ==
    MidiReturned =>
        /\ track[1].type = "set_tempo"
        /\ track[1].time = 0
        /\ \A i \in 1..(Len(events) - 1) : events[i].tick <= events[i + 1].tick
        /\ \A i \in DOMAIN events :
               /\ track[i + 1].type = events[i].type
               /\ track[i + 1].note = events[i].pitch
               /\ track[i + 1].time >= 0
               /\ track[i + 1].time
                      = events[i].tick - (IF i = 1 THEN 0 ELSE events[i - 1].tick)
               /\ DeltaSum(i + 1) = events[i].tick

\* the formatter returned the track of two overlapping notes: the second note
\* starts after the first and before it ends
C14_Witness ==
    /\ MidiReturned
    /\ Len(events) = 4
    /\ events[1].type = "note_on"
    /\ events[2].type = "note_on"
    /\ events[1].tick < events[2].tick
    /\ track[3].time > 0

\* the velocity C15 gives the on-event of a note
CeilingVelocity(velocity_midi) == IF velocity_midi > 5 THEN 100 ELSE velocity_midi

\* C15: a note whose velocity_midi is above 5 is emitted with note_on velocity
\* 100 and a note whose velocity_midi is in 0..5 with that velocity; every
\* note_on velocity is in 0..127 and every note_off velocity is 0.
C15_VelocityCeiling ==
    MidiReturned =>
        /\ \A n \in ValidMidiNotes :
               \E i \in DOMAIN events :
                   /\ events[i].type = "note_on"
                   /\ events[i].pitch = n.pitch
                   /\ events[i].tick = TickOf(n.time)
                   /\ events[i].velocity = CeilingVelocity(n.velocity_midi)
        /\ \A i \in DOMAIN events :
               /\ events[i].velocity = track[i + 1].velocity
               /\ events[i].type = "note_off" => events[i].velocity = 0
               /\ events[i].type = "note_on" =>
                      /\ events[i].velocity >= 0
                      /\ events[i].velocity <= 127
                      /\ \E n \in ValidMidiNotes :
                             /\ n.pitch = events[i].pitch
                             /\ events[i].velocity = CeilingVelocity(n.velocity_midi)

\* the formatter returned the on-events of a note of velocity 114, emitted at
\* 100, and of a note of velocity 5, emitted at 5
C15_Witness ==
    /\ MidiReturned
    /\ \E n \in ValidMidiNotes : n.velocity_midi = 114 /\ n.pitch = 60
    /\ \E n \in ValidMidiNotes : n.velocity_midi = 5 /\ n.pitch = 72
    /\ \E i \in DOMAIN track :
           track[i].type = "note_on" /\ track[i].note = 60 /\ track[i].velocity = 100
    /\ \E i \in DOMAIN track :
           track[i].type = "note_on" /\ track[i].note = 72 /\ track[i].velocity = 5

\* the smoothed onset curve of the channel never reaches onset_threshold
QuietChannel(pitch_idx) ==
    \A t \in 0..(NumFrames - 1) : At(onset_preds[pitch_idx], t) < onset_threshold

\* the onset posteriogram has been searched for peaks and not been dropped
OnsetsDetected == stage = "onsets"

\* C16: a pitch channel whose onset curve never reaches onset_threshold (an
\* all-zero curve included) yields no candidate onset for that pitch; when no
\* channel yields a candidate onset every later list is empty,
\* process_predictions does not raise and it returns an empty note list.
C16_QuietChannelNoOnsets ==
    /\ OnsetsDetected =>
           \A pitch_idx \in Channels :
               QuietChannel(pitch_idx) =>
                   \A i \in DOMAIN onsets : onsets[i].pitch # pitch_idx
    /\ (stage \notin {"start", "raised", "idle"} /\ onsets = <<>>) =>
           /\ note_endings = <<>>
           /\ notes = <<>>
           /\ constrained_notes = <<>>
           /\ cleaned_notes = <<>>
           /\ music_notes = <<>>

\* no onset was detected in a channel that holds a weak activation, below the
\* threshold once smoothed
C16_Witness ==
    /\ OnsetsDetected
    /\ QuietChannel(87)
    /\ \E t \in 0..(NumFrames - 1) : At(onset_preds[87], t) > 0
    /\ \A i \in DOMAIN onsets : onsets[i].pitch # 87

RECURSIVE FullComparison(_, _)
\* the deduplication that compares a note with every accepted note, over the
\* first n sorted notes
FullComparison(sorted_notes, n) ==
    IF n = 0 THEN <<>>
    ELSE LET accepted == FullComparison(sorted_notes, n - 1)
             note == sorted_notes[n]
         IN  IF \E k \in 1..Len(accepted) : IsDuplicate(note, accepted[k])
             THEN accepted
             ELSE Append(accepted, note)

\* C17: remove_duplicate_notes, which compares a note with the last 10 accepted
\* notes only, returns the list a comparison with every accepted note returns;
\* its output never holds two notes of one pitch that start less than 0.5 s
\* apart.
C17_LookBackIsFullComparison ==
    return_site = "chunks" =>
        /\ notes_out = FullComparison(all_notes, Len(all_notes))
        /\ \A i, j \in DOMAIN notes_out :
               i # j => ~IsDuplicate(notes_out[i], notes_out[j])

\* note a of chunk i has a counterpart in another chunk: a note of the same
\* pitch within the duplicate window, where the two chunks overlap
OverlapDuplicate(a, i) ==
    \E j \in DOMAIN chunk_results :
        /\ j # i
        /\ chunks[j].start <= a.time /\ a.time <= chunks[j].end
        /\ \E b \in NotesOf(chunk_results[j].notes) : IsDuplicate(a, b)

\* C18: the coordinator drops a note only when another chunk holds a note of
\* the same pitch at nearly the same global time in the overlap region; notes
\* decoded from one chunk, such as a key repeated within half a second, are all
\* retained.
C18_OnlyOverlapDuplicatesDropped ==
    return_site = "chunks" =>
        \A i \in DOMAIN chunk_results :
            \A a \in NotesOf(chunk_results[i].notes) :
                a \notin NotesOf(notes_out) => OverlapDuplicate(a, i)

\* the notes of the audio were decoded and no step failed on the way
DecodedWithoutFailure ==
    /\ pc \in {"midi", "returned"}
    /\ return_site # "fallback"
    /\ chunks # SplitFallback
    /\ \A i \in DOMAIN chunk_results : chunk_results[i].ok
    /\ audio_known \/ return_site = "chunks"

\* the notes came from more than one chunk
ChunkedPath == return_site = "chunks" /\ Len(chunks) > 1

\* C19: an audio longer than one model window (20.032 s) is split into more
\* than one chunk and decoded chunk by chunk, never from one truncated window;
\* an audio no longer than the window is decoded as one chunk.
C19_LongAudioIsChunked ==
    DecodedWithoutFailure => (total_duration > chunk_duration <=> ChunkedPath)

offset_threshold == 5000

\* the frames after the onset where the offset activation of its pitch exceeds
\* offset_threshold
OffsetFrames(onset) ==
    {t \in (onset.time + 1)..(NumFrames - 1) :
         At(offset_preds[onset.pitch], t) > offset_threshold}

EndingsFound == stage = "endings"

\* C20: with a model of four outputs, the ending of a note is the first frame
\* after its onset where the offset activation exceeds offset_threshold; the
\* scan of the frame activation decides only when there is no such frame.
C20_OffsetCurveEndsNote ==
    (EndingsFound /\ n_outputs = 4) =>
        \A i \in DOMAIN onsets :
            OffsetFrames(onsets[i]) # {} =>
                note_endings[i].time = SetMin(OffsetFrames(onsets[i]))

\* the frames from the onset on where the frame activation of the pitch is
\* below frame_threshold and still below it in the next frame, if there is one
SustainedDrops(onset) ==
    LET curve == frame_preds[onset.pitch]
    IN  {t \in onset.time..(NumFrames - 1) :
             /\ At(curve, t) < frame_threshold
             /\ t < NumFrames - 1 => At(curve, t + 1) < frame_threshold}

\* C21: find_note_endings_from_frames ends a note at the first frame where the
\* frame activation is below frame_threshold and stays below it through the
\* confirmation window, so one frame below the threshold with frames above it
\* after does not end the note; without a sustained drop the ending is the onset
\* plus the default duration, cut at the last frame of the curve.
C21_ConfirmedEnding ==
    EndingsFound =>
        \A i \in DOMAIN onsets :
            note_endings[i].time =
                IF SustainedDrops(onsets[i]) # {}
                THEN SetMin(SustainedDrops(onsets[i]))
                ELSE Min2(onsets[i].time + (1000 \div time_resolution), NumFrames - 1)

SetMax(S) == CHOOSE x \in S : \A y \in S : y <= x

\* the step in which clean_and_merge_notes runs
MergeStep == stage = "constrained" /\ stage' = "cleaned"

\* the notes, as they were before the merge, that went into the merged note c:
\* those of its pitch that start in its span or within merge_gap_threshold
\* after its end
Fragments(c) ==
    {n \in NotesOf(constrained_notes) :
         /\ n.pitch_idx = c.pitch_idx
         /\ c.onset_frame <= n.onset_frame
         /\ (n.onset_frame - c.offset_frame) * time_resolution <= merge_gap_threshold}

\* the merged note c has the onset of its first fragment, the end of its last
\* one and the duration between the two
MergedSpan(c) ==
    /\ \E n \in Fragments(c) : n.onset_frame = c.onset_frame
    /\ \E n \in Fragments(c) :
           /\ \A m \in Fragments(c) : m.onset_frame <= n.onset_frame
           /\ c.offset_frame = n.offset_frame
    /\ c.duration_seconds = (c.offset_frame - c.onset_frame) * time_resolution

\* no two of the notes are of one pitch and within merge_gap_threshold
MergedApart(merged) ==
    \A c, d \in NotesOf(merged) :
        (c.pitch_idx = d.pitch_idx /\ c.onset_frame < d.onset_frame) =>
            (d.onset_frame - c.offset_frame) * time_resolution > merge_gap_threshold

\* the merge rule without the velocity emitted by convert_to_music_format
MergeRuleOnMidiVelocity ==
    MergeStep =>
        /\ MergedApart(cleaned_notes')
        /\ \A c \in NotesOf(cleaned_notes') :
               /\ MergedSpan(c)
               /\ c.velocity_midi = SetMax({n.velocity_midi : n \in Fragments(c)})

\* the velocity convert_to_music_format emits for a merged note is the greatest
\* raw velocity of its fragments
MergeRuleOnEmittedVelocity ==
    MergeStep =>
        \A c \in NotesOf(cleaned_notes') :
            MusicNote(c).velocity = SetMax({n.velocity_raw : n \in Fragments(c)})

\* C22: within one pitch a note is merged into the one before it exactly when
\* its onset is at most merge_gap_threshold after that note's end; the merged
\* note keeps the earlier onset, takes the later end, has the duration between
\* them, and carries the greatest velocity of its fragments in velocity_midi and
\* in the velocity that convert_to_music_format emits.
C22_MergeRule == [][MergeRuleOnMidiVelocity /\ MergeRuleOnEmittedVelocity]_vars

NotesCreated == stage = "raw"

\* note is the raw note of the i-th onset, ending where find_note_endings_from_frames
\* ended that onset
NoteOfOnset(note, i) ==
    /\ note.onset_frame = onsets[i].time
    /\ note.pitch_idx = onsets[i].pitch
    /\ note.offset_frame = note_endings[i].time
    /\ note.onset_frame < note.offset_frame

\* C24: create_notes_from_onsets_and_endings makes exactly one raw note per
\* detected onset, with onset_frame < offset_frame and with offset_frame the
\* ending that find_note_endings_from_frames computed for that onset, never the
\* ending of another onset of the pitch.
C24_OneNotePerOnset ==
    NotesCreated =>
        /\ Len(notes) = Len(onsets)
        /\ \A i \in DOMAIN onsets : \E k \in DOMAIN notes : NoteOfOnset(notes[k], i)

PeaksFound == peak_pc = "found"

AcceptedFrames == {channel_onsets[i].time : i \in DOMAIN channel_onsets}

\* frame p of the channel is a local maximum of the required height and
\* prominence
QualifyingPeak(p) ==
    /\ \E i \in DOMAIN LocalMaxima(peak_curve) : LocalMaxima(peak_curve)[i] = p
    /\ At(peak_curve, p) >= onset_threshold
    /\ PeakProminence(peak_curve, p) >= peak_prominence

QualifyingPeaks == {p \in 0..(CurveFrames - 1) : QualifyingPeak(p)}

CloserThanSpacing(p, q) == Abs(p - q) < PeakDistance(peak_resolution)

\* accepted onsets are at least the spacing apart, and each is a qualifying peak
\* carrying the curve value at its frame as confidence
SpacedOnsets ==
    /\ \A p, q \in AcceptedFrames : p # q => ~CloserThanSpacing(p, q)
    /\ \A i \in DOMAIN channel_onsets :
           /\ QualifyingPeak(channel_onsets[i].time)
           /\ channel_onsets[i].confidence = At(peak_curve, channel_onsets[i].time)

Runs(row) ==
    {r \in (0..(Len(row) - 1)) \X (0..(Len(row) - 1)) :
         /\ r[1] <= r[2]
         /\ \A t \in r[1]..r[2] : At(row, t) > 0
         /\ r[1] > 0 => At(row, r[1] - 1) = 0
         /\ r[2] < Len(row) - 1 => At(row, r[2] + 1) = 0}

\* no other note of the row is within gap_threshold frames of the note r
Isolated(row, r) ==
    \A s \in Runs(row) \ {r} :
        /\ s[1] > r[2] => s[1] - (r[2] + 1) > gap_threshold
        /\ s[2] < r[1] => r[1] - (s[2] + 1) > gap_threshold

\* C26: in the roll apply_music_language_constraints returns, no row holds a
\* note that was shorter than min_note_duration frames in the input and had no
\* neighbour within 3 frames to merge with: every isolated short note is
\* removed, on rows of two or more notes too.
C26_ShortNotesRemoved ==
    RollReturned =>
        \A p \in DOMAIN piano_roll :
            \A r \in Runs(piano_roll[p]) :
                (r[2] - r[1] + 1 < roll_min_note_duration /\ Isolated(piano_roll[p], r))
                    => \A t \in r[1]..r[2] : At(corrected[p], t) = 0

RECURSIVE IsSubsequence(_, _)
\* a is b with some elements left out
IsSubsequence(a, b) ==
    IF a = <<>> THEN TRUE
    ELSE IF b = <<>> THEN FALSE
    ELSE IF Head(a) = Head(b) THEN IsSubsequence(Tail(a), Tail(b))
    ELSE IsSubsequence(a, Tail(b))

DuplicatesRemoved == return_site = "chunks"

\* C27: the list remove_duplicate_notes returns is a subsequence of its input
\* sorted on time, holds the earliest note, and is returned unchanged when
\* remove_duplicate_notes is applied to it again.
C27_DedupIdempotent ==
    DuplicatesRemoved =>
        /\ IsSubsequence(notes_out, all_notes)
        /\ all_notes # <<>> => (notes_out # <<>> /\ notes_out[1] = all_notes[1])
        /\ remove_duplicate_notes(notes_out) = notes_out

\* duplicates were dropped from notes that the chunks delivered out of time
\* order, and more notes than the look-back spans were kept
C27_Witness ==
    /\ DuplicatesRemoved
    /\ Len(notes_out) < Len(all_notes)
    /\ Len(notes_out) > LookBack
    /\ \E i, j \in DOMAIN chunk_results :
           /\ i < j
           /\ chunk_results[i].notes # <<>>
           /\ chunk_results[j].notes # <<>>
           /\ chunk_results[j].notes[1].time < chunk_results[i].notes[1].time

\* C28: in the events of create_midi_from_notes the off-event of a note is at
\* least one tick after its on-event and so comes after it, and of a note_off
\* and a note_on on the same tick the note_off comes first, in the events and in
\* the messages of the track.
C28_OffAfterOnAndFirstOnTies ==
    MidiReturned =>
        /\ \A n \in ValidMidiNotes :
               \E i, j \in DOMAIN events :
                   /\ i < j
                   /\ events[i].type = "note_on" /\ events[i].pitch = n.pitch
                   /\ events[i].tick = TickOf(n.time)
                   /\ events[j].type = "note_off" /\ events[j].pitch = n.pitch
                   /\ events[j].tick = TickOf(n.time) + Max2(1, TickOf(n.duration))
                   /\ events[j].tick >= events[i].tick + 1
        /\ \A i, j \in DOMAIN events :
               (/\ events[i].tick = events[j].tick
                /\ events[i].type = "note_off"
                /\ events[j].type = "note_on")
                   => (i < j /\ track[i + 1].type = "note_off"
                             /\ track[j + 1].type = "note_on")

\* the formatter returned a track in which the note_off of the higher pitch and
\* the note_on of the lower pitch fall on one tick, the note_off first with the
\* note_on at delta time 0 after it
C28_Witness ==
    /\ MidiReturned
    /\ \E i \in 1..(Len(events) - 1) :
           /\ events[i].tick = events[i + 1].tick
           /\ events[i].type = "note_off" /\ events[i].pitch = 72
           /\ events[i + 1].type = "note_on" /\ events[i + 1].pitch = 60
           /\ track[i + 2].time = 0
    /\ \E n \in ValidMidiNotes : TickOf(n.duration) = 0


\* the threads inside load_model
Loading == {t \in Threads : thread_pc[t] = "loading"}

\* the threads that get_model has handed a model
Served == {t \in Threads : thread_result[t].kind = "model"}

\* C29: under any interleaving of the requests calling get_model, load_model
\* runs in mutual exclusion and at most once: no two threads are inside it
\* together, no thread is inside it once a load has assigned the model, at
\* most one load ever assigns it, and every caller that was handed a model was
\* handed that one object.
C29_SingleLoad ==
    thread_pc # <<>> =>
        /\ Cardinality(Loading) <= 1
        /\ \A t \in Loading : lock = t
        /\ model # 0 => Loading = {}
        /\ loads <= 1
        /\ \A t \in Served : model # 0 /\ thread_result[t].model = model

\* both request threads hold the one model a single load made, three
\* requests or more in
C29_Witness ==
    /\ thread_pc # <<>>
    /\ Served = Threads
    /\ Cardinality(Threads) >= 2
    /\ loads = 1
    /\ requests >= 3


\* thread t leaves safe_reset in this step
SafeResetReturns(t) ==
    /\ thread_pc[t] = "locked"
    /\ thread_call[t] = "safe_reset"
    /\ thread_pc'[t] = "done"

\* thread t leaves the except branch of get_model in this step
RecoveryReturns(t) ==
    /\ thread_pc[t] = "loading"
    /\ thread_pc'[t] = "done"
    /\ thread_result'[t].kind # "model"

\* C30: across safe_reset and the recovery path of get_model the time of the
\* last reset moves only when more than reset_cooldown (30 s) has passed since
\* it; a safe_reset called after the cooldown records the time and returns
\* True; a call within the cooldown leaves the loader as it was and returns
\* False, and a recovery within the cooldown raises the load error on.
C30_ResetCooldown ==
    [][thread_pc # <<>> =>
        /\ last_reset_time' # last_reset_time => CooldownElapsed(clock)
        /\ \A t \in Threads :
             /\ SafeResetReturns(t) =>
                   IF CooldownElapsed(clock)
                   THEN /\ thread_result'[t].kind = "True"
                        /\ last_reset_time' = clock
                   ELSE /\ thread_result'[t].kind = "False"
                        /\ UNCHANGED <<model, last_reset_time>>
             /\ (RecoveryReturns(t) /\ ~CooldownElapsed(clock)) =>
                   /\ thread_result'[t].kind = "LoadError"
                   /\ UNCHANGED <<model, last_reset_time>>]_vars

====
